---- MODULE Spec2Model ----
(***************************************************************************)
(* Model of the reconciliation engine StockSyncProcessor (logic.py).       *)
(*                                                                         *)
(* A cell value is a sequence of characters; an absent cell (pandas NaN)   *)
(* is the one-element sequence NaN.  The sales ledger is a function from   *)
(* the DataFrame index 0..NRows to a row record that holds the positional  *)
(* columns (c129, c132, ...) and the alias columns (DZ, EC, ...) which     *)
(* load_sales_file appends as copies.  Quantities of the stock snapshot    *)
(* are held in half units, so that a fractional quantity x.5 can be told   *)
(* from x.                                                                 *)
(*                                                                         *)
(* The phases are modelled on an engine whose two stores hold sheets, all  *)
(* ledger cells being text or absent: the grid a loader that honours the   *)
(* dtype=str of load_sales_file (logic.py:50) hands over.  load_excel_file *)
(* of utils.py:32 declares no such parameter; the load operations are      *)
(* modelled with that loader in the section on loading, and the main       *)
(* window with its worker thread (ui_main.py) in the section after it.     *)
(***************************************************************************)
EXTENDS Integers, Sequences, FiniteSets, TLC

VARIABLES
    sales_file,       \* the ledger workbook on disk (never written: the output goes to *_modified)
    sales_df,         \* self.sales_df
    stock_df,         \* self.stock_df
    material_mapping, \* self.material_mapping: insertion-ordered dict, a sequence of [old, new]
    modified_cells,   \* self.modified_cells: the Change Tracker
    log,              \* messages handed to the progress callback (misses, warnings)
    pc,               \* position inside process_synchronization
    pair_i,           \* position of the Phase 1 loop in material_mapping.items()
    items,            \* the dict the Phase 1 loop iterates, and its size when the loop began
    result,           \* value returned by the last process_synchronization
    out_file,         \* cells written to the *_modified workbook by the last save
    runs,             \* number of process_synchronization invocations so far
    reloaded,         \* the ledger was loaded again from disk before the current run
    start_df,         \* history: the ledger store when the current run started
    prev_cells,       \* history: the Change Tracker at the end of the previous run
    prev_df,          \* history: the ledger store at the end of the previous run
    mapping_config,   \* the record persisted in material_mapping.json
    ret,              \* value returned by the last mapping or load call: its messages
    call,             \* history: the last mapping or load call and its arguments
    process_btn,      \* the window's start button is enabled
    sales_path,       \* text of the window's ledger path field
    stock_path,       \* text of the window's snapshot path field
    processor,        \* the engine instance the window holds (self.processor)
    workers,          \* the ProcessingThread objects started so far
    window,           \* the main window is open or has been closed
    events            \* number of handlers, other than the start button's, that have acted

\* state of the mapping and load interface of the engine
api_vars == <<mapping_config, ret, call>>

\* state of the main window
ui_vars == <<process_btn, sales_path, stock_path, processor, workers, window, events>>

vars == <<sales_file, sales_df, stock_df, material_mapping, modified_cells, log, pc,
          pair_i, items, result, out_file, runs, reloaded, start_df, prev_cells, prev_df,
          api_vars, ui_vars>>

(***************************************************************************)
(* Bounds                                                                  *)
(***************************************************************************)
NRows == 3        \* ledger data rows (DataFrame index 1..NRows; index 0 is skipped)
NStock == 2       \* stock snapshot data rows (index 1..NStock; index 0 is skipped)
MaxPairs == 2     \* size of the Mapping Table
MaxRuns == 2      \* invocations of process_synchronization on one engine

(***************************************************************************)
(* Column positions of the sales ledger                                    *)
(***************************************************************************)
original_dz_idx == 129
ec_col_idx == 132
ed_col_idx == 133
ff_col_idx == 161
fg_col_idx == 162

(***************************************************************************)
(* Text                                                                    *)
(***************************************************************************)
NaN == <<"NaN">>
Whitespace == {" ", "nbsp"}      \* characters str.strip() removes; U+00A0 is whitespace
ZeroWidth == "zw"                \* U+200B, not whitespace for str.strip()

isna(x) == x = NaN

\* str(x) / astype(str): text stays, an absent value prints as 'nan'
Str(x) == IF isna(x) THEN <<"n", "a", "n">> ELSE x

RECURSIVE LStrip(_)
LStrip(s) == IF s # <<>> /\ Head(s) \in Whitespace THEN LStrip(Tail(s)) ELSE s

RECURSIVE RStrip(_)
RStrip(s) ==
    IF s # <<>> /\ s[Len(s)] \in Whitespace THEN RStrip(SubSeq(s, 1, Len(s) - 1)) ELSE s

Strip(s) == RStrip(LStrip(s))

RECURSIVE Replace(_, _)
Replace(s, ch) ==
    IF s = <<>> THEN <<>>
    ELSE IF Head(s) = ch THEN Replace(Tail(s), ch)
    ELSE <<Head(s)>> \o Replace(Tail(s), ch)

\* a plausible slip: compare the raw text
NormalizeRaw(code) == IF isna(code) THEN <<>> ELSE Str(code)

_normalize_material_code(code) ==
    IF isna(code) THEN <<>> ELSE Replace(Replace(Strip(Str(code)), ZeroWidth), "nbsp")

\* Series.astype(str).str.strip() and str(x).strip() of a warehouse cell
StrStrip(x) == Strip(Str(x))

(***************************************************************************)
(* Values the sheets and the table are drawn from                          *)
(***************************************************************************)
Code(d) == <<"1", ".", "1", ".", "1", ".", "1", ".", "1", ".", d>>
CodeA == Code("1")
CodeB == Code("2")
CodeC == Code("3")
Padded(s) == <<" ">> \o s \o <<ZeroWidth, "nbsp">>
W1 == <<"W", "1">>
W2 == <<"W", "2">>
Blank == <<" ">>

Txt(s) == <<s>>

Num(h) == [num |-> TRUE, half |-> h]        \* the quantity h/2
Infinity == 1000                             \* float('inf'), above every quantity h/2
Inf == Num(Infinity)                         \* the cell text 'inf', which to_numeric reads as inf
NonNumeric == [num |-> FALSE, half |-> 0]    \* text that is no number, or an absent cell

StockRow(code, wh, lot, k, e, f) ==
    [A |-> code, G |-> wh, H |-> lot, K |-> k, E |-> e, F |-> f]

DataRows == 1..NRows
StockDataRows == 1..NStock

None == <<>>                                 \* a store that holds no sheet

Warn(kind, code, wh, n) == [kind |-> kind, code |-> code, wh |-> wh, n |-> n]

\* the index labels of a boolean mask, in sheet order
RECURSIVE Ascending(_, _, _)
Ascending(S, i, last) ==
    IF i > last THEN <<>>
    ELSE (IF i \in S THEN <<i>> ELSE <<>>) \o Ascending(S, i + 1, last)

LastIndex(df) == Cardinality(DOMAIN df) - 1

IndexOf(df, S) == Ascending(S, 0, LastIndex(df))

InSeq(x, s) == \E i \in 1..Len(s) : s[i] = x

RECURSIVE Track(_, _, _)
\* modified_cells.append((idx, col)) for idx in indices, with no membership test
Track(cells, indices, col) ==
    IF indices = <<>> THEN cells
    ELSE Track(Append(cells, <<Head(indices), col>>), Tail(indices), col)

RECURSIVE TrackNew(_, _, _)
\* if (idx, col) not in self.modified_cells: self.modified_cells.append((idx, col))
TrackNew(cells, indices, col) ==
    IF indices = <<>> THEN cells
    ELSE TrackNew(IF InSeq(<<Head(indices), col>>, cells) THEN cells
                  ELSE Append(cells, <<Head(indices), col>>),
                  Tail(indices), col)

(***************************************************************************)
(* Loading: the alias columns are appended as copies of the positional     *)
(* columns                                                                 *)
(***************************************************************************)
FileRow(code, wh, ec, ed, lot) ==
    [c129 |-> code, c132 |-> ec, c133 |-> ed, c161 |-> lot, c162 |-> lot, c191 |-> wh]

BindAliases(file) ==
    [i \in DOMAIN file |->
        [c129 |-> file[i].c129, c132 |-> file[i].c132, c133 |-> file[i].c133,
         c161 |-> file[i].c161, c162 |-> file[i].c162, c191 |-> file[i].c191,
         DZ |-> file[i].c129, EC |-> file[i].c132, ED |-> file[i].c133,
         FF |-> file[i].c161, FG |-> file[i].c162, GJ |-> file[i].c191]]

\* df.iat[row, col] for the positional columns the engine touches
Cell(df, r, col) ==
    CASE col = original_dz_idx -> df[r].c129
      [] col = ec_col_idx -> df[r].c132
      [] col = ed_col_idx -> df[r].c133
      [] col = ff_col_idx -> df[r].c161
      [] col = fg_col_idx -> df[r].c162

(***************************************************************************)
(* Phase 1: _replace_material_codes                                        *)
(***************************************************************************)
\* self.sales_df['DZ'] = self.sales_df['DZ'].astype(str)
AsTypeStrDZ(df) == [i \in DOMAIN df |-> [df[i] EXCEPT !.DZ = Str(df[i].DZ)]]

\* a plausible slip: the mask compares the raw cell text
MaskOldRaw(df, old_norm) ==
    {r \in DOMAIN df : NormalizeRaw(df[r].DZ) = old_norm /\ r >= 1}

\* a plausible slip: the header threshold is forgotten
MaskOldAll(df, old_norm) ==
    {r \in DOMAIN df : _normalize_material_code(df[r].DZ) = old_norm}

MaskOld(df, old_norm) ==
    {r \in DOMAIN df : _normalize_material_code(df[r].DZ) = old_norm /\ r >= 1}

\* .loc[mask_old, 'DZ'] = new_code and .iat[row_idx, 129] = new_code
ReplaceCodes(df, mask, new_code) ==
    [i \in DOMAIN df |->
        IF i \in mask THEN [df[i] EXCEPT !.DZ = new_code, !.c129 = new_code] ELSE df[i]]

\* a plausible slip: only the first of the rewritten rows is recorded
TrackReplacedFirst(cells, df, mask) ==
    Track(cells, SubSeq(IndexOf(df, mask), 1, 1), original_dz_idx)

\* appended without a membership test (logic.py:353)
TrackReplaced(cells, df, mask) == Track(cells, IndexOf(df, mask), original_dz_idx)

\* a plausible slip: a self-mapping is not skipped
SkipPairNever(old_norm, new_norm) == old_norm = <<>>

\* if not old_norm or old_norm == new_norm: continue
SkipPair(old_norm, new_norm) == old_norm = <<>> \/ old_norm = new_norm

(***************************************************************************)
(* Grouping shared by Phases 2 and 3                                       *)
(***************************************************************************)
RECURSIVE Dedup(_)
\* list(dict.fromkeys(xs)): first occurrences, in order
Dedup(xs) ==
    IF xs = <<>> THEN <<>>
    ELSE LET front == Dedup(SubSeq(xs, 1, Len(xs) - 1))
             x == xs[Len(xs)]
         IN IF InSeq(x, front) THEN front ELSE Append(front, x)

NewCodes(mapping) == Dedup([i \in 1..Len(mapping) |-> mapping[i].new])

RECURSIVE WarehousesFrom(_, _, _)
\* sales_df.iloc[1:][DZ == new_norm]['GJ'].dropna().astype(str).str.strip().unique()
WarehousesFrom(df, new_norm, i) ==
    IF i < 1 THEN <<>>
    ELSE LET front == WarehousesFrom(df, new_norm, i - 1)
             w == StrStrip(df[i].GJ)
         IN IF /\ _normalize_material_code(df[i].DZ) = new_norm
               /\ ~isna(df[i].GJ)
               /\ ~InSeq(w, front)
            THEN Append(front, w) ELSE front

WarehouseList(df, new_norm) == WarehousesFrom(df, new_norm, LastIndex(df))

RECURSIVE GroupsFrom(_, _)
\* the (new_norm, warehouse_str) pairs in the order the two nested loops visit them
GroupsFrom(df, codes) ==
    IF codes = <<>> THEN <<>>
    ELSE LET new_norm == _normalize_material_code(Head(codes))
             whs == WarehouseList(df, new_norm)
         IN [k \in 1..Len(whs) |-> [code |-> new_norm, wh |-> whs[k]]]
            \o GroupsFrom(df, Tail(codes))

\* the groups a sync driven off the codes present in the ledger would visit; the code
\* takes its codes from the values of the Mapping Table instead
GroupsOfLedger(df, mapping) ==
    GroupsFrom(df, Dedup([i \in 1..LastIndex(df) |-> df[i].DZ]))

\* Neither phase writes DZ or GJ, so the groups can be listed before the loop runs
Groups(df, mapping) == GroupsFrom(df, NewCodes(mapping))

\* a plausible slip: the mask of a group leaves out the test of the code
GroupMaskAnyCode(df, g) == {r \in DOMAIN df : StrStrip(df[r].GJ) = g.wh /\ r >= 1}

GroupMask(df, g) ==
    {r \in DOMAIN df : /\ _normalize_material_code(df[r].DZ) = g.code
                       /\ StrStrip(df[r].GJ) = g.wh
                       /\ r >= 1}

(***************************************************************************)
(* Quantities                                                              *)
(***************************************************************************)
\* pd.to_numeric(K, errors='coerce').fillna(0), in half units
K_num(row) == IF row.K.num THEN row.K.half ELSE 0

\* a plausible slip: round half up instead of truncating
IntOfRound(h) == (h + 1) \div 2

\* int(x): truncation toward zero
IntOf(h) == IF h >= 0 THEN h \div 2 ELSE -((-h) \div 2)

TextOf(x) == IF isna(x) THEN <<>> ELSE Str(x)      \* '' if pd.isna(x) else str(x)

(***************************************************************************)
(* Phase 2: _sync_auxiliary_attributes                                     *)
(***************************************************************************)
NoMatch == [found |-> FALSE, E |-> <<>>, F |-> <<>>, K |-> 0]

\* a plausible slip: >= lets the last of several equal quantities win
AuxReplacesLast(prev, qty) == ~prev.found \/ qty >= prev.K

\* key not in stock_aux_map or current_stock_qty > stock_aux_map[key]['K']
AuxReplaces(prev, qty) == ~prev.found \/ qty > prev.K

RECURSIVE AuxEntry(_, _, _, _)
\* stock_aux_map[(code, wh)] after the loop has visited stock rows 1..i
AuxEntry(stock, code, wh, i) ==
    IF i < 1 THEN NoMatch
    ELSE LET prev == AuxEntry(stock, code, wh, i - 1)
             row == stock[i]
             material_code == _normalize_material_code(row.A)
             warehouse == StrStrip(row.G)
         IN IF /\ material_code # <<>> /\ warehouse # <<>>
               /\ material_code = code /\ warehouse = wh
               /\ AuxReplaces(prev, K_num(row))
            THEN [found |-> TRUE, E |-> TextOf(row.E), F |-> TextOf(row.F), K |-> K_num(row)]
            ELSE prev

AuxLookup(stock, code, wh) == AuxEntry(stock, code, wh, LastIndex(stock))

WriteAux(df, mask, e, f) ==
    [i \in DOMAIN df |->
        IF i \in mask
        THEN [df[i] EXCEPT !.EC = e, !.c132 = e, !.ED = f, !.c133 = f]
        ELSE df[i]]

SyncGroupAux(st, stock, g) ==
    LET mask == GroupMask(st.df, g)
        indices == IndexOf(st.df, mask)
        match == AuxLookup(stock, g.code, g.wh)
    IN IF indices = <<>> THEN st
       ELSE IF match.found
       THEN [df |-> WriteAux(st.df, mask, match.E, match.F),
             cells |-> TrackNew(TrackNew(st.cells, indices, ec_col_idx), indices, ed_col_idx),
             log |-> st.log]
       ELSE [st EXCEPT !.log = Append(st.log, Warn("aux_no_stock", g.code, g.wh, 0))]

RECURSIVE SyncAuxOver(_, _, _)
SyncAuxOver(st, stock, groups) ==
    IF groups = <<>> THEN st
    ELSE SyncAuxOver(SyncGroupAux(st, stock, Head(groups)), stock, Tail(groups))

(***************************************************************************)
(* Phase 3: _sync_batch_numbers                                            *)
(***************************************************************************)
StockMask(stock, g) ==
    {r \in DOMAIN stock : /\ r >= 1
                          /\ _normalize_material_code(stock[r].A) = g.code
                          /\ StrStrip(stock[r].G) = g.wh}

RECURSIVE InsertDesc(_, _, _)
\* place row r behind every row whose quantity is not smaller
InsertDesc(stock, sorted, r) ==
    IF sorted = <<>> THEN <<r>>
    ELSE IF K_num(stock[Head(sorted)]) >= K_num(stock[r])
    THEN <<Head(sorted)>> \o InsertDesc(stock, Tail(sorted), r)
    ELSE <<r>> \o sorted

RECURSIVE SortFrom(_, _)
SortFrom(stock, rows) ==
    IF rows = <<>> THEN <<>>
    ELSE InsertDesc(stock, SortFrom(stock, SubSeq(rows, 1, Len(rows) - 1)), rows[Len(rows)])

\* a plausible slip: the sort is left out, batches are consumed in sheet order
SortUnsorted(stock, rows) == rows

\* stock_rows.sort_values(by='K_num', ascending=False): equal quantities keep sheet
\* order (nargsort reverses, sorts and reverses again; below 17 rows the sort is an
\* insertion sort)
SortDesc(stock, rows) == SortFrom(stock, rows)

BatchInfo(stock, sorted) ==
    [k \in 1..Len(sorted) |->
        [batch |-> TextOf(stock[sorted[k]].H), qty |-> IntOf(K_num(stock[sorted[k]]))]]

Min(a, b) == IF a <= b THEN a ELSE b

WriteBatch(df, idx, batch) ==
    [df EXCEPT ![idx] = [@ EXCEPT !.FF = batch, !.FG = batch, !.c161 = batch, !.c162 = batch]]

RECURSIVE Assign(_, _, _, _)
\* for i in range(assign_count): idx = sales_indices.pop(0); write and track both cells
Assign(st, count, batch, sales_indices) ==
    IF count <= 0 THEN [st |-> st, rest |-> sales_indices]
    ELSE LET idx == Head(sales_indices)
         IN Assign([st EXCEPT !.df = WriteBatch(st.df, idx, batch),
                              !.cells = TrackNew(TrackNew(st.cells, <<idx>>, ff_col_idx),
                                                 <<idx>>, fg_col_idx)],
                   count - 1, batch, Tail(sales_indices))

RECURSIVE Allocate(_, _, _)
Allocate(st, batch_info, sales_indices) ==
    IF batch_info = <<>> \/ sales_indices = <<>> THEN [st |-> st, rest |-> sales_indices]
    ELSE LET b == Head(batch_info)
             assign_count == Min(b.qty, Len(sales_indices))
         IN IF assign_count = 0 THEN Allocate(st, Tail(batch_info), sales_indices)
            ELSE LET a == Assign(st, assign_count, b.batch, sales_indices)
                 IN Allocate(a.st, Tail(batch_info), a.rest)

SyncGroupBatch(st, stock, g) ==
    LET indices == IndexOf(st.df, GroupMask(st.df, g))
        stock_rows == IndexOf(stock, StockMask(stock, g))
    IN IF indices = <<>> THEN st
       ELSE IF stock_rows = <<>>
       THEN [st EXCEPT !.log = Append(st.log, Warn("batch_no_stock", g.code, g.wh, 0))]
       ELSE LET a == Allocate(st, BatchInfo(stock, SortDesc(stock, stock_rows)), indices)
            IN IF a.rest # <<>>
               THEN [a.st EXCEPT
                        !.log = Append(a.st.log, Warn("shortfall", g.code, g.wh, Len(a.rest)))]
               ELSE a.st

RECURSIVE SyncBatchOver(_, _, _)
SyncBatchOver(st, stock, groups) ==
    IF groups = <<>> THEN st
    ELSE SyncBatchOver(SyncGroupBatch(st, stock, Head(groups)), stock, Tail(groups))

(***************************************************************************)
(* process_synchronization, one action per step of the call                *)
(***************************************************************************)
ErrNoSales == "sales ledger not loaded"
ErrNoStock == "stock snapshot not loaded"
Success == ""
\* the messages of the handler at the end of the call, which wraps whatever a phase raised
ErrKeyError == "synchronization failed: 'K'"
ErrOverflow == "synchronization failed: cannot convert float infinity to integer"
ErrRuntime == "synchronization failed: dictionary changed size during iteration"

\* iter(d.items()): the dict object d, its size at this moment, and whether d is still the
\* object self.material_mapping names (an assignment to the attribute unbinds it)
Iterator(d) == [dict |-> d, used |-> Len(d), bound |-> TRUE]
NoIterator == [dict |-> <<>>, used |-> 0, bound |-> FALSE]

\* self.material_mapping[k] = v done in place: the iterated dict changes with it
InPlace(it, d) == IF it.bound THEN [it EXCEPT !.dict = d] ELSE it

\* self.material_mapping = {}: the iterated dict is left as it is
Rebound(it) == [it EXCEPT !.bound = FALSE]

\* the store holds a sheet to which no alias column was added: df['K'] raises KeyError
NoAliases(df) == "K" \notin DOMAIN df[0]

\* int(row['K_num']) raises OverflowError when a batch of the group has quantity inf
Overflows(df, stock, g) ==
    /\ GroupMask(df, g) # {}
    /\ \E r \in StockMask(stock, g) : K_num(stock[r]) = Infinity

\* a plausible alternative that the code does not implement: a phase that raises leaves
\* nothing behind
CompletedAllOrNone(df, stock, groups) ==
    IF \E k \in 1..Len(groups) : Overflows(df, stock, groups[k]) THEN <<>> ELSE groups

\* the groups Phase 3 completes: all of them, or those before the first that raises
Completed(df, stock, groups) ==
    IF \E k \in 1..Len(groups) : Overflows(df, stock, groups[k])
    THEN SubSeq(groups, 1,
                (CHOOSE k \in 1..Len(groups) :
                    /\ Overflows(df, stock, groups[k])
                    /\ \A j \in 1..(k - 1) : ~Overflows(df, stock, groups[j])) - 1)
    ELSE groups

\* a plausible slip: the stores are not tested
NotLoadedNever(df) == FALSE

\* self.sales_df is None, self.stock_df is None
NotLoaded(df) == df = None

\* a plausible slip: the tracker of the previous run is kept
ClearedKeep(cells) == cells

\* self.modified_cells = []
Cleared(cells) == <<>>

\* The entry of the call up to the Phase 1 loop: the two precondition tests, the
\* empty-mapping warning, the tracker reset and the astype(str) of the DZ column.
Invoke ==
    /\ runs < MaxRuns
    /\ runs' = runs + 1
    /\ IF NotLoaded(sales_df) \/ NotLoaded(stock_df)
       THEN /\ result' = (IF NotLoaded(sales_df) THEN ErrNoSales ELSE ErrNoStock)
            /\ pc' = "done"
            /\ UNCHANGED <<sales_df, modified_cells, log, pair_i, items, start_df>>
       ELSE /\ modified_cells' = Cleared(modified_cells)
            /\ start_df' = sales_df
            /\ result' = "running"
            /\ IF material_mapping = <<>>
               THEN /\ log' = <<Warn("no_mapping", <<>>, <<>>, 0)>>
                    /\ pc' = "phase2"
                    /\ UNCHANGED <<sales_df, pair_i, items>>
               ELSE /\ log' = <<>>
                    /\ sales_df' = AsTypeStrDZ(sales_df)
                    /\ pair_i' = 1
                    /\ items' = Iterator(material_mapping)
                    /\ pc' = "phase1"
    /\ UNCHANGED <<sales_file, stock_df, material_mapping, out_file, api_vars, ui_vars>>

Start ==
    /\ pc = "idle"
    /\ Invoke
    /\ UNCHANGED <<reloaded, prev_cells, prev_df>>

\* One iteration of the loop over self.material_mapping.items().  The iterator raises
\* RuntimeError when the dict it was made from has changed its size since the loop began.
ReplacePair ==
    /\ pc = "phase1"
    /\ IF Len(items.dict) # items.used
       THEN /\ result' = ErrRuntime
            /\ pc' = "done"
            /\ UNCHANGED <<sales_df, modified_cells, log, pair_i>>
       ELSE /\ LET pair == items.dict[pair_i]
                   old_norm == _normalize_material_code(pair.old)
                   new_norm == _normalize_material_code(pair.new)
                   mask_old == MaskOld(sales_df, old_norm)
               IN IF SkipPair(old_norm, new_norm)
                  THEN /\ log' = Append(log, Warn("skip", pair.old, <<>>, 0))
                       /\ UNCHANGED <<sales_df, modified_cells>>
                  ELSE IF mask_old = {}
                  THEN /\ log' = Append(log, Warn("miss", pair.old, <<>>, 0))
                       /\ UNCHANGED <<sales_df, modified_cells>>
                  ELSE /\ sales_df' = ReplaceCodes(sales_df, mask_old, pair.new)
                       /\ modified_cells' = TrackReplaced(modified_cells, sales_df, mask_old)
                       /\ UNCHANGED log
            /\ pair_i' = pair_i + 1
            /\ pc' = IF pair_i = Len(items.dict) THEN "phase2" ELSE "phase1"
            /\ UNCHANGED result
    /\ UNCHANGED <<sales_file, stock_df, material_mapping, items, out_file, runs, reloaded,
                   start_df, prev_cells, prev_df, api_vars, ui_vars>>

\* Phase 2.  On a snapshot without alias columns the phase raises at its second
\* statement (temp_stock_df['K']); the handler of process_synchronization returns the
\* message, and neither Phase 3 nor the write-back runs.
SyncAuxiliaryAttributes ==
    /\ pc = "phase2"
    /\ IF NoAliases(stock_df)
       THEN /\ result' = ErrKeyError
            /\ pc' = "done"
            /\ UNCHANGED <<sales_df, modified_cells, log>>
       ELSE /\ LET st == SyncAuxOver([df |-> sales_df, cells |-> modified_cells, log |-> log],
                                     stock_df, Groups(sales_df, material_mapping))
               IN /\ sales_df' = st.df
                  /\ modified_cells' = st.cells
                  /\ log' = st.log
            /\ pc' = "phase3"
            /\ UNCHANGED result
    /\ UNCHANGED <<sales_file, stock_df, material_mapping, pair_i, items, out_file, runs,
                   reloaded, start_df, prev_cells, prev_df, api_vars, ui_vars>>

\* a process_synchronization that writes the file whatever Phase 3 did
AfterBatchesAlwaysSave(completed, groups) == "save"

\* self._save_with_highlights() is the statement after self._sync_batch_numbers(): it is
\* reached when Phase 3 returned, and not when Phase 3 raised into the except clause
AfterBatches(completed, groups) == IF completed = groups THEN "save" ELSE "done"

\* Phase 3.  On a snapshot without alias columns the phase raises at its second statement,
\* as Phase 2 does.  A group with a batch of quantity inf raises while its batch list is
\* built, before any of its rows is written; the groups before it keep what they were given.
SyncBatchNumbers ==
    /\ pc = "phase3"
    /\ IF NoAliases(stock_df)
       THEN /\ result' = ErrKeyError
            /\ pc' = "done"
            /\ UNCHANGED <<sales_df, modified_cells, log>>
       ELSE LET groups == Groups(sales_df, material_mapping)
                completed == Completed(sales_df, stock_df, groups)
                st == SyncBatchOver([df |-> sales_df, cells |-> modified_cells, log |-> log],
                                    stock_df, completed)
            IN /\ sales_df' = st.df
               /\ modified_cells' = st.cells
               /\ log' = st.log
               /\ pc' = AfterBatches(completed, groups)
               /\ result' = (IF completed = groups THEN result ELSE ErrOverflow)
    /\ UNCHANGED <<sales_file, stock_df, material_mapping, pair_i, items, out_file, runs,
                   reloaded, start_df, prev_cells, prev_df, api_vars, ui_vars>>

\* ws.cell(row=row_idx + 2, column=col_idx + 1).value = sales_df.iat[row_idx, col_idx]
Highlighted(df, cells) ==
    {[row |-> cells[k][1] + 2, column |-> cells[k][2] + 1,
      value |-> Cell(df, cells[k][1], cells[k][2])] : k \in 1..Len(cells)}

\* _save_with_highlights and the return of the call.  Reopening the workbook or
\* saving the new file may fail; both failures are caught inside the method.
SaveWithHighlights ==
    /\ pc = "save"
    /\ \E outcome \in {"saved", "cannot reopen", "cannot save"} :
          IF outcome = "saved"
          THEN /\ out_file' = Highlighted(sales_df, modified_cells)
               /\ UNCHANGED log
          ELSE /\ log' = Append(log, Warn(outcome, <<>>, <<>>, 0))
               /\ UNCHANGED out_file
    /\ result' = Success
    /\ pc' = "done"
    /\ prev_cells' = IF runs = 1 THEN modified_cells ELSE prev_cells
    /\ prev_df' = IF runs = 1 THEN sales_df ELSE prev_df
    /\ UNCHANGED <<sales_file, sales_df, stock_df, material_mapping, modified_cells, pair_i,
                   items, runs, reloaded, start_df, api_vars, ui_vars>>

\* The ledger store is filled again from the workbook on disk between two runs: the
\* assignment and the alias binding of load_sales_file
Reload ==
    /\ pc = "done"
    /\ runs < MaxRuns
    /\ reloaded # "pending"
    /\ sales_df' = BindAliases(sales_file)
    /\ reloaded' = "pending"
    /\ UNCHANGED <<sales_file, stock_df, material_mapping, modified_cells, log, pc, pair_i,
                   items, result, out_file, runs, start_df, prev_cells, prev_df, api_vars,
                   ui_vars>>

\* process_synchronization invoked again on the same engine
Again ==
    /\ pc = "done"
    /\ Invoke
    /\ reloaded' = (IF reloaded = "pending" THEN "yes" ELSE "no")
    /\ UNCHANGED <<prev_cells, prev_df>>

Next ==
    \/ Start
    \/ ReplacePair
    \/ SyncAuxiliaryAttributes
    \/ SyncBatchNumbers
    \/ SaveWithHighlights

NextRerun ==
    \/ Next
    \/ Reload
    \/ Again

(***************************************************************************)
(* Initial states: an engine with both sheets loaded and a Mapping Table   *)
(* built by set_material_mapping                                           *)
(***************************************************************************)
Lot(i) == <<"L", ToString(i)>>
OldLot == Txt("lot")
OldEC == Txt("ec")
OldED == Txt("ed")

\* index 0 of either sheet is never scanned; both carry values that would match
HeaderRow == FileRow(CodeA, W1, OldEC, OldED, OldLot)
StockHeader == StockRow(CodeB, W1, Lot(0), Num(18), <<"E", "0">>, <<"F", "0">>)

LedgerOf(kinds) ==
    [i \in DOMAIN kinds \cup {0} |->
        IF i = 0 THEN HeaderRow
        ELSE FileRow(kinds[i][1], kinds[i][2], OldEC, OldED, OldLot)]

StockOf(kinds) ==
    [i \in DOMAIN kinds \cup {0} |->
        IF i = 0 THEN StockHeader
        ELSE StockRow(kinds[i][1], kinds[i][2], Lot(i), kinds[i][3],
                      <<"E", ToString(i)>>, <<"F", ToString(i)>>)]

Pair(o, n) == [old |-> o, new |-> n]

\* What a path may name: nothing, a file that is no workbook, a workbook that cannot be
\* read, a workbook without data rows, a workbook with a grid of so many columns
File(kind, columns, rows) == [kind |-> kind, columns |-> columns, rows |-> rows]
Missing == File("missing", 0, <<>>)
NotExcel == File("not excel", 0, <<>>)
Unreadable == File("unreadable", 0, <<>>)
EmptyBook == File("empty", 0, <<>>)
Sheet(columns, rows) == File("sheet", columns, rows)

NoFile == File("none", 0, <<>>)

\* a call of the interface: its name, its two codes or its list, the file it names
Call(op, old, new, list, file) ==
    [op |-> op, old |-> old, new |-> new, list |-> list, file |-> file]
NoCall == Call("none", <<>>, <<>>, <<>>, NoFile)

DistinctKeys(m) == \A i, j \in 1..Len(m) : m[i].old = m[j].old => i = j

TablesOver(pairs) ==
    {m \in UNION {[1..n -> pairs] : n \in 0..MaxPairs} : DistinctKeys(m)}

InitWith(file, stock, mapping) ==
    /\ sales_file = file
    /\ sales_df = BindAliases(file)
    /\ stock_df = stock
    /\ material_mapping = mapping
    /\ modified_cells = <<>>
    /\ log = <<>>
    /\ pc = "idle"
    /\ pair_i = 1
    /\ items = NoIterator
    /\ result = "none"
    /\ out_file = {}
    /\ runs = 0
    /\ reloaded = "no"
    /\ start_df = BindAliases(file)
    /\ prev_cells = <<>>
    /\ prev_df = BindAliases(file)
    /\ mapping_config = mapping
    /\ ret = <<>>
    /\ call = NoCall
    /\ process_btn = TRUE
    /\ sales_path = TRUE
    /\ stock_path = TRUE
    /\ processor = 1
    /\ workers = <<>>
    /\ window = "open"
    /\ events = 0

\* chained, swapped and self-mapping pairs, which set_material_mapping accepts
Pairs == {Pair(CodeA, CodeB), Pair(CodeA, CodeA), Pair(CodeB, CodeA), Pair(CodeB, CodeC),
          Pair(CodeC, CodeA)}

LedgerKinds == {<<CodeA, W1>>, <<Padded(CodeA), Padded(W1)>>, <<CodeB, W1>>}

StockKinds == {<<CodeB, W1, Num(2)>>, <<Padded(CodeC), W1, Num(4)>>}

\* Ledger rows of three kinds, tables of chained, swapped and self-mapping pairs; the
\* first stock row is a batch of B or of C, the others are batches of C
Init ==
    \E lk \in [DataRows -> LedgerKinds], k \in StockKinds, m \in TablesOver(Pairs) :
        InitWith(LedgerOf(lk),
                 StockOf([i \in StockDataRows |->
                             IF i = 1 THEN k ELSE <<Padded(CodeC), W1, Num(4)>>]),
                 m)

\* Repeated runs: every stock row is a batch of the same group with the same quantity
RerunPairs == Pairs \ {Pair(CodeC, CodeA)}
RerunLedgerKinds == {<<CodeA, W1>>, <<CodeB, W1>>}
RerunStockKinds == {<<CodeB, W1, Num(2)>>}

InitRerun ==
    \E lk \in [DataRows -> RerunLedgerKinds], sk \in [StockDataRows -> RerunStockKinds],
       m \in TablesOver(RerunPairs) :
        InitWith(LedgerOf(lk), StockOf(sk), m)

\* Allocation: one pair A -> B; quantities that are text, negative, zero, fractional
\* (1.5) and whole (2); a warehouse cell that is blank; an empty ledger line
AllocLedgerKinds == {<<CodeA, W1>>, <<CodeA, Blank>>, <<NaN, NaN>>}
AllocStockKinds ==
    {<<CodeB, W1, q>> : q \in {NonNumeric, Num(-2), Num(0), Num(3), Num(4)}}
    \cup {<<CodeB, Blank, Num(2)>>}

\* The first two ledger rows are of any kind, the others are rows of A in W1
InitAlloc ==
    \E k1 \in AllocLedgerKinds, k2 \in AllocLedgerKinds,
       sk \in [StockDataRows -> AllocStockKinds] :
        InitWith(LedgerOf([i \in DataRows |->
                              IF i = 1 THEN k1 ELSE IF i = 2 THEN k2 ELSE <<CodeA, W1>>]),
                 StockOf(sk), <<Pair(CodeA, CodeB)>>)

\* The end-to-end scenario: four ledger rows of old code A in W1, the pair A -> B, the
\* batches B1 (quantity 3) and B2 (quantity 5) of (B, W1), in either sheet order; the
\* batch cells of the ledger rows start filled or absent
B1 == <<"B", "1">>
B2 == <<"B", "2">>
ScenarioBatches ==
    {<<StockRow(CodeB, W1, B1, Num(6), Txt("e1"), Txt("f1")),
       StockRow(CodeB, W1, B2, Num(10), Txt("e2"), Txt("f2"))>>,
     <<StockRow(CodeB, W1, B2, Num(10), Txt("e2"), Txt("f2")),
       StockRow(CodeB, W1, B1, Num(6), Txt("e1"), Txt("f1"))>>}

ScenarioRows == {1, 2, 3, 4}

InitE2E ==
    \E lots \in [ScenarioRows -> {OldLot, NaN}], ecs \in [ScenarioRows -> {OldEC, NaN}],
       batches \in ScenarioBatches :
        InitWith([i \in ScenarioRows \cup {0} |->
                     IF i = 0 THEN HeaderRow
                     ELSE FileRow(CodeA, W1, ecs[i], OldED, lots[i])],
                 [i \in DOMAIN batches \cup {0} |->
                     IF i = 0 THEN StockHeader ELSE batches[i]],
                 <<Pair(CodeA, CodeB)>>)

Spec == Init /\ [][Next]_vars

SpecRerun == InitRerun /\ [][NextRerun]_vars

SpecAlloc == InitAlloc /\ [][Next]_vars

SpecE2E == InitE2E /\ [][Next]_vars

(***************************************************************************)
(* The Mapping Table interface: set_material_mapping,                      *)
(* set_material_mappings, clear_material_mappings, and the record kept in  *)
(* material_mapping.json                                                   *)
(***************************************************************************)
MaxBatch == 2     \* length of the list handed to set_material_mappings

Digits == {"0", "1", "2", "3", "4", "5", "6", "7", "8", "9"}

\* part.isdigit(): non-empty and every character a digit
isdigit(part) == part # <<>> /\ \A i \in 1..Len(part) : part[i] \in Digits

RECURSIVE Split(_)
\* code.split('.'): the empty string splits into one empty part
Split(code) ==
    IF code = <<>> THEN << <<>> >>
    ELSE LET parts == Split(SubSeq(code, 1, Len(code) - 1))
             ch == code[Len(code)]
         IN IF ch = "." THEN Append(parts, <<>>)
            ELSE [parts EXCEPT ![Len(parts)] = Append(@, ch)]

\* a plausible slip: the number of segments is not tested
ValidateDigitsOnly(code) ==
    LET parts == Split(code)
    IN code # <<>> /\ \A i \in 1..Len(parts) : isdigit(parts[i])

_validate_material_code(code) ==
    LET parts == Split(code)
    IN /\ code # <<>>
       /\ Len(parts) = 6
       /\ \A i \in 1..Len(parts) : isdigit(parts[i])

\* an error message; old and new are the codes it names, if any
Err(kind, old, new) == [kind |-> kind, old |-> old, new |-> new]

HasKey(m, k) == \E i \in 1..Len(m) : m[i].old = k

\* d[k] = v on an insertion-ordered dict: a present key keeps its place
DictSet(m, k, v) ==
    IF HasKey(m, k)
    THEN [i \in 1..Len(m) |-> IF m[i].old = k THEN [old |-> k, new |-> v] ELSE m[i]]
    ELSE Append(m, [old |-> k, new |-> v])

\* d.get(k); None when the key is absent
DictGet(m, k) ==
    IF HasKey(m, k) THEN (CHOOSE p \in {m[i] : i \in 1..Len(m)} : p.old = k).new ELSE None

\* _save_mapping_config with the write succeeding: json.dump of the whole table.
\* (A failing write is caught and logged; the file then keeps its content.)
_save_mapping_config(m) == m

RECURSIVE _load_mapping_config(_)
\* {normalize(k): normalize(v) for k, v in data.items()}
_load_mapping_config(data) ==
    IF data = <<>> THEN <<>>
    ELSE LET last == data[Len(data)]
         IN DictSet(_load_mapping_config(SubSeq(data, 1, Len(data) - 1)),
                    _normalize_material_code(last.old), _normalize_material_code(last.new))

\* variables of process_synchronization and of the two stores
run_vars == <<sales_file, sales_df, stock_df, modified_cells, log, pc, pair_i, result,
              out_file, runs, reloaded, start_df, prev_cells, prev_df>>

set_material_mapping(old_code, new_code) ==
    /\ IF old_code = <<>> \/ new_code = <<>>
       THEN /\ ret' = <<Err("empty", <<>>, <<>>)>>
            /\ UNCHANGED <<material_mapping, mapping_config, items>>
       ELSE IF ~_validate_material_code(old_code) \/ ~_validate_material_code(new_code)
       THEN /\ ret' = <<Err("format", <<>>, <<>>)>>
            /\ UNCHANGED <<material_mapping, mapping_config, items>>
       ELSE /\ material_mapping' = DictSet(material_mapping, old_code, new_code)
            /\ items' = InPlace(items, material_mapping')
            /\ mapping_config' = _save_mapping_config(material_mapping')
            /\ ret' = <<>>
    /\ call' = Call("set_material_mapping", old_code, new_code, <<>>, NoFile)
    /\ UNCHANGED run_vars

RECURSIVE BatchLoopFailFast(_, _)
\* a plausible slip: the loop stops at the first pair that fails
BatchLoopFailFast(m, mappings) ==
    IF mappings = <<>> THEN [mapping |-> m, errors |-> <<>>]
    ELSE LET before == BatchLoopFailFast(m, SubSeq(mappings, 1, Len(mappings) - 1))
             p == mappings[Len(mappings)]
         IN IF before.errors # <<>> THEN before
            ELSE IF _validate_material_code(p.old) /\ _validate_material_code(p.new)
            THEN [before EXCEPT !.mapping = DictSet(@, p.old, p.new)]
            ELSE [before EXCEPT !.errors = Append(@, Err("format", p.old, p.new))]

RECURSIVE BatchLoop(_, _)
\* the loop of set_material_mappings: the table and the errors after the list
BatchLoop(m, mappings) ==
    IF mappings = <<>> THEN [mapping |-> m, errors |-> <<>>]
    ELSE LET before == BatchLoop(m, SubSeq(mappings, 1, Len(mappings) - 1))
             p == mappings[Len(mappings)]
         IN IF p.old = <<>> \/ p.new = <<>>
            THEN [before EXCEPT !.errors = Append(@, Err("empty", p.old, p.new))]
            ELSE IF ~_validate_material_code(p.old) \/ ~_validate_material_code(p.new)
            THEN [before EXCEPT !.errors = Append(@, Err("format", p.old, p.new))]
            ELSE [before EXCEPT !.mapping = DictSet(@, p.old, p.new)]

set_material_mappings(mappings) ==
    /\ IF mappings = <<>>
       THEN /\ ret' = <<Err("empty list", <<>>, <<>>)>>
            /\ UNCHANGED <<material_mapping, mapping_config, items>>
       ELSE LET after == BatchLoop(material_mapping, mappings)
            IN /\ material_mapping' = after.mapping
               /\ items' = InPlace(items, after.mapping)
               /\ ret' = after.errors
               /\ mapping_config' = IF after.errors # <<>> THEN mapping_config
                                    ELSE _save_mapping_config(after.mapping)
    /\ call' = Call("set_material_mappings", <<>>, <<>>, mappings, NoFile)
    /\ UNCHANGED run_vars

clear_material_mappings ==
    /\ material_mapping' = <<>>
    /\ items' = Rebound(items)
    /\ mapping_config' = _save_mapping_config(material_mapping')
    /\ ret' = <<>>
    /\ call' = Call("clear_material_mappings", <<>>, <<>>, <<>>, NoFile)
    /\ UNCHANGED run_vars

\* Codes a caller may hand over: two valid ones, the empty string, five and seven
\* segments, a letter segment, an empty segment, a code wrapped in white space
FiveSegments == SubSeq(CodeA, 1, 9)
SevenSegments == CodeA \o <<".", "1">>
NonDigit == Code("x")
EmptySegment == SubSeq(CodeA, 1, 10)
BadCodes == {<<>>, FiveSegments, SevenSegments, NonDigit, EmptySegment, Padded(CodeA)}
GoodCodes == {CodeA, CodeB}

\* Arguments of a single call: two good codes, or a bad code in either place, or both
\* empty
CodeInputs ==
    (GoodCodes \X GoodCodes) \cup (BadCodes \X {CodeA}) \cup ({CodeA} \X BadCodes)
    \cup {<< <<>>, <<>> >>}

\* Pairs of a batch: two that pass and two that fail
BatchPairs ==
    {Pair(CodeA, CodeB), Pair(CodeB, CodeC), Pair(NonDigit, CodeB), Pair(CodeA, <<>>)}

Batches == UNION {[1..n -> BatchPairs] : n \in 0..MaxBatch}

SetMaterialMapping ==
    \E args \in CodeInputs : set_material_mapping(args[1], args[2]) /\ UNCHANGED ui_vars

SetMaterialMappings ==
    \E mappings \in Batches : set_material_mappings(mappings) /\ UNCHANGED ui_vars

ClearMaterialMappings == clear_material_mappings /\ UNCHANGED ui_vars

NextMapping ==
    \/ SetMaterialMapping
    \/ SetMaterialMappings
    \/ ClearMaterialMappings

\* The engine as __init__ leaves it: no sheet in either store, the Mapping Table read
\* from the persisted record
Constructed(file, config) ==
    /\ sales_file = file
    /\ sales_df = None
    /\ stock_df = None
    /\ material_mapping = _load_mapping_config(config)
    /\ modified_cells = <<>>
    /\ log = <<>>
    /\ pc = "idle"
    /\ pair_i = 1
    /\ items = NoIterator
    /\ result = "none"
    /\ out_file = {}
    /\ runs = 0
    /\ reloaded = "no"
    /\ start_df = None
    /\ prev_cells = <<>>
    /\ prev_df = None
    /\ mapping_config = config
    /\ ret = <<>>
    /\ call = NoCall
    /\ process_btn = TRUE
    /\ sales_path = FALSE
    /\ stock_path = FALSE
    /\ processor = 1
    /\ workers = <<>>
    /\ window = "open"
    /\ events = 0

\* persisted records found at construction: none, one pair, one pair with a padded key
ConfigFiles == {<<>>, <<Pair(CodeA, CodeB)>>, <<Pair(Padded(CodeB), CodeC)>>}

PlainLedger == LedgerOf([i \in DataRows |-> <<CodeA, W1>>])

InitMapping == \E config \in ConfigFiles : Constructed(PlainLedger, config)

SpecMapping == InitMapping /\ [][NextMapping]_vars

(***************************************************************************)
(* Loading the sheets: load_excel_file, load_sales_file, load_stock_file   *)
(***************************************************************************)
sales_max_col_needed == 208      \* max(required_columns.values()) of the ledger
stock_max_col_needed == 10       \* max(required_columns.values()) of the snapshot

\* the keyword parameters load_excel_file declares besides file_path: none
LoaderKeywords == {}

\* load_excel_file(file_path, **kwargs): the call raises TypeError for a keyword the
\* function does not declare; otherwise it returns (df, error)
load_excel_file(file, kwargs) ==
    IF ~(kwargs \subseteq LoaderKeywords)
    THEN [raised |-> TRUE, df |-> None, error |-> "unexpected keyword argument"]
    ELSE CASE file.kind = "missing" ->
                 [raised |-> FALSE, df |-> None, error |-> "file does not exist"]
           [] file.kind = "not excel" ->
                 [raised |-> FALSE, df |-> None, error |-> "unsupported file format"]
           [] file.kind = "unreadable" ->
                 [raised |-> FALSE, df |-> None, error |-> "reading the workbook failed"]
           [] file.kind = "empty" ->
                 [raised |-> FALSE, df |-> None, error |-> "the workbook is empty"]
           [] file.kind = "sheet" ->
                 [raised |-> FALSE, df |-> file.rows, error |-> ""]

\* the alias columns A, G, H, K, E, F appended as copies of positions 0, 6, 7, 10, 4, 5
\* (the phases read the snapshot through the aliases only)
BindStockAliases(rows) ==
    [i \in DOMAIN rows |->
        StockRow(rows[i].c0, rows[i].c6, rows[i].c7, rows[i].c10, rows[i].c4, rows[i].c5)]

\* a plausible repair that the code does not make: the store is assigned after the
\* column count has been tested
StoreAfterCheck(store, df, columns, max_col_needed) ==
    IF columns <= max_col_needed THEN store ELSE df

\* self.stock_df = df, ahead of the column-count test
StoreBeforeCheck(store, df, columns, max_col_needed) == df

\* load_sales_file passes dtype=str to load_excel_file
load_sales_file(file) ==
    /\ LET loaded == load_excel_file(file, {"dtype"})
       IN IF loaded.raised \/ loaded.error # ""
          THEN /\ ret' = <<Err(loaded.error, <<>>, <<>>)>>
               /\ UNCHANGED <<sales_df, sales_file>>
          ELSE /\ sales_file' = file.rows
               /\ IF file.columns <= sales_max_col_needed
                  THEN /\ sales_df' = StoreBeforeCheck(sales_df, loaded.df, file.columns,
                                                       sales_max_col_needed)
                       /\ ret' = <<Err("too few columns", <<>>, <<>>)>>
                  ELSE /\ sales_df' = BindAliases(loaded.df)
                       /\ ret' = <<>>
    /\ call' = Call("load_sales_file", <<>>, <<>>, <<>>, file)
    /\ UNCHANGED <<stock_df, material_mapping, modified_cells, log, pc, pair_i, items,
                   result, out_file, runs, reloaded, start_df, prev_cells, prev_df,
                   mapping_config>>

load_stock_file(file) ==
    /\ LET loaded == load_excel_file(file, {})
       IN IF loaded.raised \/ loaded.error # ""
          THEN /\ ret' = <<Err(loaded.error, <<>>, <<>>)>>
               /\ UNCHANGED stock_df
          ELSE IF file.columns <= stock_max_col_needed
          THEN /\ stock_df' = StoreBeforeCheck(stock_df, loaded.df, file.columns,
                                               stock_max_col_needed)
               /\ ret' = <<Err("too few columns", <<>>, <<>>)>>
          ELSE /\ stock_df' = BindStockAliases(loaded.df)
               /\ ret' = <<>>
    /\ call' = Call("load_stock_file", <<>>, <<>>, <<>>, file)
    /\ UNCHANGED <<sales_file, sales_df, material_mapping, modified_cells, log, pc, pair_i,
                   items, result, out_file, runs, reloaded, start_df, prev_cells, prev_df,
                   mapping_config>>

\* Snapshot workbooks: a grid one column short of the contract, and grids of exactly
\* the contracted width whose rows are batches of B in W1 or W2, one of quantity inf
NarrowStock ==
    Sheet(stock_max_col_needed, [i \in 0..1 |-> [c0 |-> CodeB, c6 |-> W1, c7 |-> Lot(i)]])

PositionalStock(stock) ==
    [i \in DOMAIN stock |->
        [c0 |-> stock[i].A, c6 |-> stock[i].G, c7 |-> stock[i].H, c10 |-> stock[i].K,
         c4 |-> stock[i].E, c5 |-> stock[i].F]]

\* the first batch is of (B, W1), the second of (B, W2) with quantity 1 or inf, the
\* others of (B, W2)
WideStocks ==
    {Sheet(stock_max_col_needed + 1,
           PositionalStock(StockOf([i \in StockDataRows |->
                                       IF i = 1 THEN <<CodeB, W1, Num(4)>>
                                       ELSE IF i = 2 THEN <<CodeB, W2, q>>
                                       ELSE <<CodeB, W2, Num(2)>>]))) :
        q \in {Num(2), Inf}}

StockFiles == {Missing, NotExcel, Unreadable, EmptyBook, NarrowStock} \cup WideStocks

\* Ledger workbooks: a grid one column short of the contract and one of the contracted
\* width
NarrowLedger == Sheet(sales_max_col_needed, [i \in 0..1 |-> [c129 |-> CodeA]])
WideLedger == Sheet(sales_max_col_needed + 1, PlainLedger)
SalesFiles == {Missing, NarrowLedger, WideLedger}

\* a caller of the engine that loads between runs, never during one
BetweenRuns == pc \in {"idle", "done"}

LoadSalesFile ==
    \E file \in SalesFiles : BetweenRuns /\ load_sales_file(file) /\ UNCHANGED ui_vars

LoadStockFile ==
    \E file \in StockFiles : BetweenRuns /\ load_stock_file(file) /\ UNCHANGED ui_vars

NextLoad ==
    \/ LoadSalesFile
    \/ LoadStockFile
    \/ Next
    \/ Again

\* Ledgers for the load specification: the first two rows carry A or B in W1 or W2, the
\* others carry A in W2
LoadLedgerKinds ==
    {<< <<CodeA, W1>>, <<CodeA, W2>> >>, << <<CodeA, W2>>, <<CodeA, W1>> >>,
     << <<CodeB, W1>>, <<CodeA, W1>> >>, << <<CodeB, W1>>, <<CodeB, W2>> >>}
LoadLedgers ==
    {LedgerOf([i \in DataRows |-> IF i <= 2 THEN k[i] ELSE <<CodeA, W2>>]) :
        k \in LoadLedgerKinds}

\* The engine as constructed, or with a ledger in its store and no snapshot yet
InitLoad ==
    \E config \in {<<>>, <<Pair(CodeA, CodeB)>>} :
        \/ Constructed(PlainLedger, config)
        \/ \E file \in LoadLedgers :
              /\ sales_file = file
              /\ sales_df = BindAliases(file)
              /\ stock_df = None
              /\ material_mapping = _load_mapping_config(config)
              /\ modified_cells = <<>>
              /\ log = <<>>
              /\ pc = "idle"
              /\ pair_i = 1
              /\ items = NoIterator
              /\ result = "none"
              /\ out_file = {}
              /\ runs = 0
              /\ reloaded = "no"
              /\ start_df = BindAliases(file)
              /\ prev_cells = <<>>
              /\ prev_df = BindAliases(file)
              /\ mapping_config = config
              /\ ret = <<>>
              /\ call = NoCall
              /\ process_btn = TRUE
              /\ sales_path = TRUE
              /\ stock_path = FALSE
              /\ processor = 1
              /\ workers = <<>>
              /\ window = "open"
              /\ events = 0

SpecLoad == InitLoad /\ [][NextLoad]_vars

(***************************************************************************)
(* The main window and its worker thread: StockSyncMainWindow and          *)
(* ProcessingThread.  A handler runs on the event loop from start to end;  *)
(* the steps of a worker interleave with the handlers.  The engine a       *)
(* worker was given is followed step by step while the window still holds  *)
(* it; once clear_all has replaced it, only the end of its run is seen.    *)
(***************************************************************************)
MaxEngines == 2   \* engine instances one window creates
MaxEvents == 3    \* handlers, other than the start button's, that act on one window

engine_vars == <<sales_file, sales_df, stock_df, material_mapping, modified_cells, log, pc,
                 pair_i, items, result, out_file, runs, reloaded, start_df, prev_cells,
                 prev_df>>

\* utils.validate_material_code, the test the window makes before it calls the engine
validate_material_code(code) ==
    LET parts == Split(code)
    IN /\ code # <<>>
       /\ Len(parts) = 6
       /\ \A i \in 1..Len(parts) : isdigit(parts[i])

\* ProcessingThread(self.processor): the engine it was given and the number of
\* invocations made before it was started
Worker(engine, ticket) == [engine |-> engine, ticket |-> ticket, st |-> "started"]

Open == window = "open"

\* a handler other than the start button's acts
Handles == events < MaxEvents /\ events' = events + 1

\* between thread.start() and the emission of finished
InFlight(k) == workers[k].st = "started"

\* the window still holds the engine the worker was given
Attached(k) == workers[k].engine = processor

\* a plausible slip: start_processing leaves the button as it is
ButtonLeftEnabled == TRUE

\* self.process_btn.setEnabled(False)
ButtonAfterStart == FALSE

\* The click on the start button; a disabled button emits no click
start_processing ==
    /\ Open
    /\ process_btn
    /\ Len(workers) < MaxRuns
    /\ IF material_mapping = <<>> \/ ~sales_path \/ ~stock_path
       THEN UNCHANGED vars
       ELSE /\ process_btn' = ButtonAfterStart
            /\ workers' = Append(workers, Worker(processor, runs))
            /\ UNCHANGED <<engine_vars, api_vars, sales_path, stock_path, processor, window,
                           events>>

\* ProcessingThread.run enters process_synchronization
ThreadRun ==
    /\ Open
    /\ \E k \in DOMAIN workers : InFlight(k) /\ Attached(k) /\ runs = workers[k].ticket
    /\ (Start \/ Again)

\* the call made by the worker goes through its phases
ThreadPhase ==
    /\ Open
    /\ \E k \in DOMAIN workers : InFlight(k) /\ Attached(k) /\ runs > workers[k].ticket
    /\ (ReplacePair \/ SyncAuxiliaryAttributes \/ SyncBatchNumbers \/ SaveWithHighlights)

\* process_synchronization has returned and run emits finished
ThreadEmit ==
    /\ Open
    /\ \E k \in DOMAIN workers :
          /\ InFlight(k)
          /\ Attached(k) => runs > workers[k].ticket /\ pc = "done"
          /\ workers' = [workers EXCEPT ![k].st = "emitted"]
    /\ UNCHANGED <<engine_vars, api_vars, process_btn, sales_path, stock_path, processor,
                   window, events>>

\* the slot connected to finished, run by the event loop
processing_finished ==
    /\ Open
    /\ \E k \in DOMAIN workers :
          /\ workers[k].st = "emitted"
          /\ workers' = [workers EXCEPT ![k].st = "delivered"]
    /\ process_btn' = TRUE
    /\ UNCHANGED <<engine_vars, api_vars, sales_path, stock_path, processor, window, events>>

\* what the file dialog returns: nothing when it is cancelled, else a workbook
ChosenSalesFiles == {NoFile, WideLedger}
ChosenStockFiles ==
    {NoFile, NarrowStock} \cup {f \in WideStocks : \A i \in DOMAIN f.rows : f.rows[i].c10 # Inf}

\* the path field is filled, the engine loads, and on an error the field is cleared
browse_sales_file ==
    /\ Open
    /\ \E file \in ChosenSalesFiles :
          IF file = NoFile THEN UNCHANGED vars
          ELSE /\ Handles
               /\ load_sales_file(file)
               /\ sales_path' = (ret' = <<>>)
               /\ UNCHANGED <<process_btn, stock_path, processor, workers, window>>

browse_stock_file ==
    /\ Open
    /\ \E file \in ChosenStockFiles :
          IF file = NoFile THEN UNCHANGED vars
          ELSE /\ Handles
               /\ load_stock_file(file)
               /\ stock_path' = (ret' = <<>>)
               /\ UNCHANGED <<process_btn, sales_path, processor, workers, window>>

\* texts of the two code fields
FieldInputs == {<<CodeB, CodeC>>, <<<<" ">> \o CodeA, CodeC>>, <<NonDigit, CodeB>>}

add_material_mapping ==
    /\ Open
    /\ \E fields \in FieldInputs :
          LET old_code == Strip(fields[1])
              new_code == Strip(fields[2])
          IN IF \/ old_code = <<>> \/ new_code = <<>>
                \/ ~validate_material_code(old_code)
                \/ ~validate_material_code(new_code)
             THEN UNCHANGED vars
             ELSE /\ Handles
                  /\ set_material_mapping(old_code, new_code)
                  /\ UNCHANGED <<process_btn, sales_path, stock_path, processor, workers,
                                 window>>

\* the lines of the batch field, split at the comma and stripped
FieldBatches == {<<>>, <<Pair(CodeA, <<>>)>>, <<Pair(CodeA, CodeC), Pair(NonDigit, CodeB)>>}

add_batch_mappings ==
    /\ Open
    /\ \E mappings \in FieldBatches :
          IF \/ mappings = <<>>
             \/ \E i \in 1..Len(mappings) : mappings[i].old = <<>> \/ mappings[i].new = <<>>
          THEN UNCHANGED vars
          ELSE /\ Handles
               /\ set_material_mappings(mappings)
               /\ UNCHANGED <<process_btn, sales_path, stock_path, processor, workers, window>>

Replies == {"Yes", "No"}

clear_mappings ==
    /\ Open
    /\ \E reply \in Replies :
          IF reply = "No" THEN UNCHANGED vars
          ELSE /\ Handles
               /\ clear_material_mappings
               /\ UNCHANGED <<process_btn, sales_path, stock_path, processor, workers, window>>

\* The fields are cleared, the engine held so far clears its table and its record, and
\* the window takes a new engine, which reads the record; the button is not touched
clear_all ==
    /\ Open
    /\ processor < MaxEngines
    /\ \E reply \in Replies :
          IF reply = "No" THEN UNCHANGED vars
          ELSE /\ Handles
               /\ sales_path' = FALSE
               /\ stock_path' = FALSE
               /\ mapping_config' = _save_mapping_config(<<>>)
               /\ ret' = <<>>
               /\ call' = Call("clear_material_mappings", <<>>, <<>>, <<>>, NoFile)
               /\ processor' = processor + 1
               /\ sales_df' = None
               /\ stock_df' = None
               /\ material_mapping' = _load_mapping_config(mapping_config')
               /\ modified_cells' = <<>>
               /\ log' = <<>>
               /\ pc' = "idle"
               /\ pair_i' = 1
               /\ items' = NoIterator
               /\ result' = "none"
               /\ reloaded' = "no"
               /\ start_df' = None
               /\ prev_cells' = <<>>
               /\ prev_df' = None
               /\ UNCHANGED <<sales_file, out_file, runs, process_btn, workers, window>>

\* A window whose last thread is running asks before it closes and terminates the
\* thread; a terminated thread emits nothing
closeEvent ==
    /\ Open
    /\ IF workers # <<>> /\ InFlight(Len(workers))
       THEN \E reply \in Replies :
               IF reply = "No" THEN UNCHANGED vars
               ELSE /\ Handles
                    /\ workers' = [workers EXCEPT ![Len(workers)].st = "terminated"]
                    /\ window' = "closed"
                    /\ UNCHANGED <<engine_vars, api_vars, process_btn, sales_path,
                                   stock_path, processor>>
       ELSE /\ Handles
            /\ window' = "closed"
            /\ UNCHANGED <<engine_vars, api_vars, process_btn, sales_path, stock_path,
                           processor, workers>>

NextUI ==
    \/ start_processing
    \/ ThreadRun
    \/ ThreadPhase
    \/ ThreadEmit
    \/ processing_finished
    \/ browse_sales_file
    \/ browse_stock_file
    \/ add_material_mapping
    \/ add_batch_mappings
    \/ clear_mappings
    \/ clear_all
    \/ closeEvent

\* The window as constructed, or with a ledger chosen and held by the engine, the
\* snapshot being chosen or not
InitUI ==
    /\ InitLoad
    /\ sales_df # None => sales_df[1].DZ = CodeA /\ sales_df[1].GJ = W1

SpecUI == InitUI /\ [][NextUI]_vars

(***************************************************************************)
(* Ledgers whose header row has an empty code cell                         *)
(***************************************************************************)
\* the cell of row 0 in the material-code column: a text that is also an old code, or
\* an empty cell, which read_excel delivers as NaN
HeaderCodes == {CodeA, NaN}
FrameLedgerKinds == {<<CodeA, W1>>, <<CodeB, W1>>, <<NaN, W1>>}
FramePairs == {Pair(CodeA, CodeB), Pair(CodeB, CodeC)}

InitFrame ==
    \E h \in HeaderCodes, lk \in [DataRows -> FrameLedgerKinds], k \in StockKinds,
       m \in TablesOver(FramePairs) :
        InitWith([LedgerOf(lk) EXCEPT ![0] = FileRow(h, W1, OldEC, OldED, OldLot)],
                 StockOf([i \in StockDataRows |-> k]),
                 m)

SpecFrame == InitFrame /\ [][Next]_vars

(***************************************************************************)
(* Cells with invisible padding: a run on sheets in which one code or one  *)
(* warehouse name is wrapped in white space, zero-width and non-breaking   *)
(* characters                                                              *)
(***************************************************************************)
MaxPad == 2       \* invisible characters in front of, and behind, a padded value

Invisible == {" ", ZeroWidth, "nbsp"}
Pads == UNION {[1..n -> Invisible] : n \in 0..MaxPad}
Variants(s) == {pre \o s \o post : pre, post \in Pads}

\* The first ledger row carries a variant of A (or no code) in W1, or B in a variant of
\* W1, or B in W1 while the snapshot names a variant of W1; the other ledger rows carry
\* A in W1, every batch is one of B, and the table maps A to B
InitNormalize ==
    \E t \in {<<x, W1, W1>> : x \in Variants(CodeA) \cup {NaN, CodeB}}
              \cup {<<CodeB, w, W1>> : w \in Variants(W1)}
              \cup {<<CodeB, W1, u>> : u \in Variants(W1)} :
        InitWith(LedgerOf([i \in DataRows |->
                              IF i = 1 THEN <<t[1], t[2]>> ELSE <<CodeA, W1>>]),
                 StockOf([i \in StockDataRows |-> <<CodeB, t[3], Num(4)>>]),
                 <<Pair(CodeA, CodeB)>>)

SpecNormalize == InitNormalize /\ [][Next]_vars

(***************************************************************************)
(* Properties                                                              *)
(***************************************************************************)
NoDuplicates(cells) == \A i, j \in 1..Len(cells) : cells[i] = cells[j] => i = j

\* the entries a step appends to the Change Tracker
Appended == SubSeq(modified_cells', Len(modified_cells) + 1, Len(modified_cells'))

\* C1: when Phase 1 processes a pair whose normalized old code is non-empty and differs
\* from the normalized new code, every ledger row with index >= 1 whose normalized
\* material-code cell (position 129) equals the normalized old code gets the literal
\* new code in that cell and (row, 129) is recorded; every other row (index 0, or
\* another normalized code) keeps its cell and is not recorded by that pair.
C1_PairRewritesExactlyItsRows ==
    [][(pc = "phase1" /\ pair_i' = pair_i + 1) =>
        LET pair == material_mapping[pair_i]
            old_norm == _normalize_material_code(pair.old)
            new_norm == _normalize_material_code(pair.new)
        IN (old_norm # <<>> /\ old_norm # new_norm) =>
           /\ SubSeq(modified_cells', 1, Len(modified_cells)) = modified_cells
           /\ \A r \in DOMAIN sales_df :
                IF r >= 1 /\ _normalize_material_code(sales_df[r].c129) = old_norm
                THEN /\ sales_df'[r].c129 = pair.new
                     /\ InSeq(<<r, 129>>, Appended)
                ELSE /\ sales_df'[r].c129 = sales_df[r].c129
                     /\ ~InSeq(<<r, 129>>, Appended)
      ]_vars

\* C1 witness: the first pair A -> B has been processed; a row whose cell held A with
\* surrounding whitespace and a zero-width character now holds B and is tracked, a row
\* with another code is untouched, and so is index 0, which holds A
C1_Witness ==
    /\ pair_i > 1
    /\ material_mapping[1] = Pair(CodeA, CodeB)
    /\ \E r, q \in DataRows :
          /\ start_df[r].c129 = Padded(CodeA)
          /\ sales_df[r].c129 = CodeB
          /\ InSeq(<<r, 129>>, modified_cells)
          /\ start_df[q].c129 = CodeB
          /\ ~InSeq(<<q, 129>>, modified_cells)
    /\ sales_df[0].c129 = CodeA

(***************************************************************************)
(* Reference allocation of Phase 3                                         *)
(***************************************************************************)
AfterPhase3 == pc \in {"save", "done"} /\ result # ErrNoSales /\ result # ErrNoStock

\* the groups of the current ledger: every (new code, warehouse) carried by a data row
RefGroups ==
    {[code |-> _normalize_material_code(material_mapping[i].new),
      wh |-> StrStrip(sales_df[r].GJ)] :
        i \in 1..Len(material_mapping),
        r \in {x \in DOMAIN sales_df : x >= 1 /\ ~isna(sales_df[x].GJ)}}

RefRows(g) == IndexOf(sales_df, GroupMask(sales_df, g))

\* the group's stock rows by descending quantity, equal quantities in sheet order
RefOrder(g) ==
    LET rows == StockMask(stock_df, g)
        n == Cardinality(rows)
    IN CHOOSE p \in [1..n -> rows] :
          \A a, b \in 1..n :
              a < b => \/ K_num(stock_df[p[a]]) > K_num(stock_df[p[b]])
                       \/ /\ K_num(stock_df[p[a]]) = K_num(stock_df[p[b]])
                          /\ p[a] < p[b]

\* twice the quantity as the snapshot states it (text counts as 0)
RawHalf(r) == IF stock_df[r].K.num THEN stock_df[r].K.half ELSE 0

\* the whole units that can be taken from a batch: none when the quantity is negative,
\* zero or no number, the integer part otherwise
Units(r) == IF stock_df[r].K.num /\ stock_df[r].K.half > 0 THEN stock_df[r].K.half \div 2 ELSE 0

RECURSIVE SumRaw(_, _)
SumRaw(p, i) == IF i = 0 THEN 0 ELSE SumRaw(p, i - 1) + RawHalf(p[i])

RECURSIVE SumUnits(_, _)
SumUnits(p, i) == IF i = 0 THEN 0 ELSE SumUnits(p, i - 1) + Units(p[i])

Max(a, b) == IF a >= b THEN a ELSE b

Shortfalls(g) == {k \in 1..Len(log) : log[k].kind = "shortfall" /\ log[k].code = g.code
                                      /\ log[k].wh = g.wh}

AssignedTo(idx, r) ==
    /\ sales_df[idx].c161 = TextOf(stock_df[r].H)
    /\ sales_df[idx].c162 = TextOf(stock_df[r].H)
    /\ InSeq(<<idx, 161>>, modified_cells)
    /\ InSeq(<<idx, 162>>, modified_cells)

Unassigned(idx) ==
    /\ sales_df[idx].c161 = start_df[idx].c161
    /\ sales_df[idx].c162 = start_df[idx].c162
    /\ ~InSeq(<<idx, 161>>, modified_cells)
    /\ ~InSeq(<<idx, 162>>, modified_cells)

AfterPhase2 == pc \in {"phase3", "save", "done"} /\ result # ErrNoSales /\ result # ErrNoStock

\* the matching stock row with the largest quantity, the first of them in the sheet
Winner(g) ==
    LET rows == StockMask(stock_df, g)
    IN CHOOSE w \in rows :
          \A r \in rows : \/ K_num(stock_df[w]) > K_num(stock_df[r])
                          \/ K_num(stock_df[w]) = K_num(stock_df[r]) /\ w <= r

CarriesAttributesOf(idx, w) ==
    /\ sales_df[idx].c132 = TextOf(stock_df[w].E)
    /\ sales_df[idx].c133 = TextOf(stock_df[w].F)

\* C3 as claimed: every (new code, warehouse) group with at least one matching stock
\* data row has, on each of its ledger rows, the two attribute values of the matching
\* row with the largest quantity, the first in the snapshot among equals.
C3_AttributesOfLargestBatch ==
    AfterPhase2 =>
      \A g \in RefGroups :
        StockMask(stock_df, g) # {} =>
          \A idx \in GroupMask(sales_df, g) : CarriesAttributesOf(idx, Winner(g))

\* C3 amended: the same for every group whose warehouse name is not blank; a group
\* whose warehouse cell holds only whitespace is never synced by Phase 2 (a quantity
\* that is no number counts as 0).
C3_AttributesOfLargestBatchNamedWarehouse ==
    AfterPhase2 =>
      \A g \in RefGroups :
        (StockMask(stock_df, g) # {} /\ g.wh # <<>>) =>
          \A idx \in GroupMask(sales_df, g) :
             /\ CarriesAttributesOf(idx, Winner(g))
             /\ InSeq(<<idx, 132>>, modified_cells)
             /\ InSeq(<<idx, 133>>, modified_cells)

\* C3 witness: two batches of (B, W1) with the same quantity 2; the ledger rows of the
\* group carry the attributes of the first
C3_Witness ==
    /\ AfterPhase2
    /\ \A r \in StockDataRows : stock_df[r].G = W1 /\ stock_df[r].K = Num(4)
    /\ \E idx \in DataRows :
          /\ start_df[idx].c129 = CodeA /\ start_df[idx].c191 = W1
          /\ sales_df[idx].c132 = <<"E", "1">>
          /\ sales_df[idx].c133 = <<"F", "1">>

(***************************************************************************)
(* Change Tracker                                                          *)
(***************************************************************************)
\* C4: in every state during or after a run the Change Tracker holds no (row, column)
\* pair twice, whatever the Mapping Table (chained and swapped pairs included).
C4_TrackerHasNoDuplicates == NoDuplicates(modified_cells)

Returned == pc = "done" /\ result = Success

TrackedIn(col) == {k \in 1..Len(modified_cells) : modified_cells[k][2] = col}

\* C5 as claimed: the end-to-end scenario leaves exactly 16 tracked cells, no duplicates.
C5_SixteenTrackedCells ==
    Returned => Len(modified_cells) = 16 /\ NoDuplicates(modified_cells)

\* C5 amended: the scenario leaves exactly 20 tracked cells and no duplicates: 4
\* material-code cells (129), 4 x 2 attribute cells (132, 133) and 4 x 2 batch cells,
\* because both batch columns (161 and 162) are written and tracked.
C5_TwentyTrackedCells ==
    Returned =>
       /\ Len(modified_cells) = 20
       /\ NoDuplicates(modified_cells)
       /\ \A col \in {129, 132, 133, 161, 162} : Cardinality(TrackedIn(col)) = 4
       /\ \A k \in 1..Len(modified_cells) : modified_cells[k][1] \in ScenarioRows

\* C5 witness: the scenario run has returned with 20 tracked cells
C5_Witness == Returned /\ Len(modified_cells) = 20 /\ Cardinality(DOMAIN sales_df) = 5

(***************************************************************************)
(* End-to-end scenario                                                     *)
(***************************************************************************)
AllCarryNewCode == \A r \in ScenarioRows : sales_df[r].c129 = CodeB

HasBatch(r, b) == sales_df[r].c161 = b /\ sales_df[r].c162 = b

AllCarryAttributesOfB2 ==
    \A r \in ScenarioRows : sales_df[r].c132 = Txt("e2") /\ sales_df[r].c133 = Txt("f2")

\* C6 as claimed: all four rows carry the new code, B1 (quantity 3) is assigned to the
\* first three rows and B2 (quantity 5) to the fourth, the attributes are those of B2.
C6_ThreeRowsB1OneRowB2 ==
    Returned =>
       /\ AllCarryNewCode
       /\ HasBatch(1, B1) /\ HasBatch(2, B1) /\ HasBatch(3, B1) /\ HasBatch(4, B2)
       /\ AllCarryAttributesOfB2

\* C6 amended: all four rows carry the new code and the attributes of B2, and all four
\* rows are assigned B2: the batches are consumed by descending quantity, B2 (5) covers
\* the four rows and nothing is taken from B1.
C6_AllRowsB2 ==
    Returned =>
       /\ AllCarryNewCode
       /\ \A r \in ScenarioRows : HasBatch(r, B2)
       /\ AllCarryAttributesOfB2

\* C6 witness: the run has returned, B1 stands before B2 in the snapshot and the first
\* ledger row, whose batch cell was absent, holds B2
C6_Witness ==
    /\ Returned
    /\ stock_df[1].H = B1
    /\ start_df[1].c161 = NaN
    /\ HasBatch(1, B2)

(***************************************************************************)
(* Shortfall                                                               *)
(***************************************************************************)
\* what the claim promises for a group g that is short of stock: the rows left over
\* keep both batch cells, one warning names their number, every other group that has
\* stock is still served, and the call returns success
ShortfallHandled(g) ==
    LET rows == RefRows(g)
        left == {k \in 1..Len(rows) : Unassigned(rows[k])}
    IN /\ left # {}
       /\ \A k \in 1..Len(rows) :
             k \notin left => \E r \in StockMask(stock_df, g) : AssignedTo(rows[k], r)
       /\ Cardinality(Shortfalls(g)) = 1
       /\ \A k \in Shortfalls(g) : log[k].n = Cardinality(left)
       /\ \A h \in RefGroups :
             LET q == RefOrder(h)
             IN (Len(q) > 0 /\ Units(q[1]) > 0) => AssignedTo(RefRows(h)[1], q[1])
       /\ pc = "done" => result = Success

\* C7 as claimed: whenever the quantities of a group's matching batches total less than
\* the number of its ledger rows, the shortfall is handled as above.
C7_ShortfallWhenStatedTotalIsLess ==
    AfterPhase3 =>
      \A g \in RefGroups :
        LET p == RefOrder(g)
        IN (Len(p) > 0 /\ SumRaw(p, Len(p)) < 2 * Len(RefRows(g))) => ShortfallHandled(g)

\* C7 amended: whenever the whole units of a group's matching batches (max(0, integer
\* part) of each quantity, text counting as 0) total less than the number of its ledger
\* rows, the shortfall is handled as above.  A negative quantity lowers the stated
\* total without taking anything from the other batches.
C7_ShortfallWhenWholeUnitsAreLess ==
    AfterPhase3 =>
      \A g \in RefGroups :
        LET p == RefOrder(g)
        IN (Len(p) > 0 /\ SumUnits(p, Len(p)) < Len(RefRows(g))) => ShortfallHandled(g)

\* C7 witness: the run has returned success; the group of W1 has three rows and one
\* batch of 2, its third row keeps the old batch and a warning names 1 row; the stock
\* of the blank warehouse is not part of the group
C7_Witness ==
    /\ Returned
    /\ \A r \in DataRows : start_df[r].c129 = CodeA /\ start_df[r].c191 = W1
    /\ stock_df[1].G = W1 /\ stock_df[1].K = Num(4) /\ stock_df[2].G = Blank
    /\ AssignedTo(1, 1) /\ AssignedTo(2, 1) /\ Unassigned(3)
    /\ \E k \in 1..Len(log) : log[k] = Warn("shortfall", CodeB, W1, 1)

(***************************************************************************)
(* A pair whose old code is on no ledger row                               *)
(***************************************************************************)
OnNoDataRow(code) ==
    \A r \in DOMAIN start_df : r >= 1 => _normalize_material_code(start_df[r].c129) # code

NothingMutated ==
    /\ modified_cells = <<>>
    /\ sales_df = start_df
    /\ \E k \in 1..Len(log) : log[k].kind = "miss"
    /\ result = Success

\* C8 as claimed: if the only pair's old code is carried by no ledger data row, the run
\* mutates nothing, logs the lookup miss and returns success, whatever the rows carry.
C8_NoMatchMutatesNothing ==
    (pc = "done" /\ Len(material_mapping) = 1
       /\ OnNoDataRow(_normalize_material_code(material_mapping[1].old)))
    => NothingMutated

\* stock rows that Phases 2 and 3 would find for a data row that carries the new code
NewCodeHasStock(new_norm) ==
    \E r \in DOMAIN start_df, x \in DOMAIN stock_df :
        /\ r >= 1 /\ x >= 1
        /\ _normalize_material_code(start_df[r].c129) = new_norm
        /\ _normalize_material_code(stock_df[x].A) = new_norm
        /\ StrStrip(start_df[r].c191) = StrStrip(stock_df[x].G)

\* C8 amended: if the only pair maps an old code to a different new code, the old code
\* is carried by no ledger data row, and no data row that carries the new code has a
\* matching snapshot data row, the run mutates nothing, logs the lookup miss and
\* returns success.  Rows that already carry the new code are synced by Phases 2 and 3
\* when the snapshot has rows for them; a self-mapping pair is skipped without a miss.
C8_NoMatchNoStockMutatesNothing ==
    (pc = "done" /\ Len(material_mapping) = 1
       /\ OnNoDataRow(_normalize_material_code(material_mapping[1].old))
       /\ _normalize_material_code(material_mapping[1].old)
             # _normalize_material_code(material_mapping[1].new)
       /\ ~NewCodeHasStock(_normalize_material_code(material_mapping[1].new)))
    => NothingMutated

\* C8 witness: the only pair is C -> A, no row carries C, rows carry the new code A
\* (with and without padding), the snapshot has no row for A; nothing was mutated
C8_Witness ==
    /\ pc = "done"
    /\ material_mapping = <<Pair(CodeC, CodeA)>>
    /\ \E r, q \in DataRows : start_df[r].c129 = CodeA /\ start_df[q].c129 = Padded(CodeA)
    /\ NothingMutated

(***************************************************************************)
(* Repeated runs                                                           *)
(***************************************************************************)
\* a Phase 1 step of a run that works on the ledger the previous run left
SecondPhase1Step == pc = "phase1" /\ pair_i' = pair_i + 1 /\ runs >= 2 /\ reloaded = "no"

Phase1StepChangesNothing == sales_df' = sales_df /\ modified_cells' = modified_cells

IsSelf(pair) == _normalize_material_code(pair.old) = _normalize_material_code(pair.new)

\* no pair writes a code that a pair processed before it replaces
NoLaterPairFeedsEarlier(m) ==
    \A i, j \in 1..Len(m) :
        (i < j /\ ~IsSelf(m[i]) /\ ~IsSelf(m[j]))
            => _normalize_material_code(m[j].new) # _normalize_material_code(m[i].old)

SixDigitSegments(code) ==
    LET dots == {i \in 1..Len(code) : code[i] = "."}
    IN /\ Cardinality(dots) = 5
       /\ \A i \in 1..Len(code) : i \notin dots => code[i] \in Digits
       /\ code # <<>> /\ 1 \notin dots /\ Len(code) \notin dots
       /\ \A i \in dots : i + 1 \notin dots

\* C11: a set_material_mapping call with two six-segment all-digit codes returns no
\* error and leaves old mapped to new; a call with an empty or ill-formed code returns
\* an error and leaves the Mapping Table exactly as it was.
C11_SetAcceptsExactlyValidCodes ==
    [][call'.op = "set_material_mapping" =>
          IF SixDigitSegments(call'.old) /\ SixDigitSegments(call'.new)
          THEN ret' = <<>> /\ DictGet(material_mapping', call'.old) = call'.new
          ELSE ret' # <<>> /\ material_mapping' = material_mapping]_vars

\* a pair only a call can have put in the table, and a later call that was rejected
C11_Witness ==
    /\ DictGet(material_mapping, CodeB) = CodeA
    /\ call.op = "set_material_mapping" /\ call.old = SevenSegments
    /\ ret = <<Err("format", <<>>, <<>>)>>

(***************************************************************************)
(* C12: set_material_mappings against set applied pair by pair             *)
(***************************************************************************)
PairPasses(p) == SixDigitSegments(p.old) /\ SixDigitSegments(p.new)

RECURSIVE SetEach(_, _)
\* the table after set has been applied to every pair of the list, in list order
SetEach(m, list) ==
    IF list = <<>> THEN m
    ELSE IF PairPasses(Head(list)) THEN SetEach(DictSet(m, Head(list).old, Head(list).new),
                                                Tail(list))
    ELSE SetEach(m, Tail(list))

\* the pairs of the list that fail, in list order
FailedPairs(list) == SelectSeq(list, LAMBDA p : ~PairPasses(p))

NamesFailedPairs(errors, list) ==
    /\ Len(errors) = Len(FailedPairs(list))
    /\ \A i \in 1..Len(errors) :
          errors[i].old = FailedPairs(list)[i].old /\ errors[i].new = FailedPairs(list)[i].new

\* C12 as stated: the table after set_material_mappings(list) is the table after set
\* applied to each pair in order, and the returned error is non-empty exactly when at
\* least one pair failed, with one message per failed pair.
C12_BatchIsSetEachErrorIffAPairFailed ==
    [][call'.op = "set_material_mappings" =>
          /\ material_mapping' = SetEach(material_mapping, call'.list)
          /\ (ret' # <<>>) <=> (FailedPairs(call'.list) # <<>>)
          /\ NamesFailedPairs(ret', call'.list)]_vars

\* C12 amended: the same, the empty list being rejected with a message of its own
\* although no pair failed.
C12_BatchIsSetEachErrorIffEmptyOrAPairFailed ==
    [][call'.op = "set_material_mappings" =>
          /\ material_mapping' = SetEach(material_mapping, call'.list)
          /\ (ret' # <<>>) <=> (call'.list = <<>> \/ FailedPairs(call'.list) # <<>>)
          /\ call'.list # <<>> => NamesFailedPairs(ret', call'.list)
          /\ call'.list = <<>> => Len(ret') = 1]_vars

\* a batch whose first pair fails and whose second pair is committed
C12_Witness ==
    /\ call.op = "set_material_mappings"
    /\ call.list = <<Pair(NonDigit, CodeB), Pair(CodeB, CodeC)>>
    /\ DictGet(material_mapping, CodeB) = CodeC
    /\ Len(ret) = 1 /\ ret[1].old = NonDigit

(***************************************************************************)
(* C13: the persisted record follows the Mapping Table                     *)
(***************************************************************************)
\* C13: whenever a mapping call has returned, the record persisted in
\* material_mapping.json equals the in-memory Mapping Table.
C13_PersistedRecordEqualsTable ==
    call.op \in {"set_material_mapping", "set_material_mappings", "clear_material_mappings"}
        => mapping_config = material_mapping

\* the state the claim singles out: a batch committed one pair and rejected another,
\* and the file still holds the table from before the call
C13_PartialBatchNotPersisted ==
    /\ call.op = "set_material_mappings"
    /\ call.list = <<Pair(CodeA, CodeB), Pair(NonDigit, CodeB)>>
    /\ material_mapping = <<Pair(CodeA, CodeB)>>
    /\ mapping_config = <<>>

(***************************************************************************)
(* C14: the run precondition                                               *)
(***************************************************************************)
\* a step that enters process_synchronization
Invoked == runs' = runs + 1

\* C14: process_synchronization invoked while either store holds no sheet returns a
\* non-empty error, runs no phase, writes no file and leaves both stores, the Mapping
\* Table and the Change Tracker as they were; with both stores filled, in whatever
\* order, it returns no sheet-not-loaded error.
C14_RunNeedsBothSheets ==
    [][Invoked =>
          IF sales_df = None \/ stock_df = None
          THEN /\ result' \in {ErrNoSales, ErrNoStock} /\ result' # Success
               /\ pc' = "done"
               /\ out_file' = out_file
               /\ sales_df' = sales_df /\ stock_df' = stock_df
               /\ material_mapping' = material_mapping /\ mapping_config' = mapping_config
               /\ modified_cells' = modified_cells
          ELSE result' \notin {ErrNoSales, ErrNoStock}]_vars

\* a snapshot was loaded, the ledger store is empty, and the run was refused
C14_Witness ==
    /\ pc = "done" /\ result = ErrNoSales
    /\ sales_df = None /\ stock_df # None /\ ~NoAliases(stock_df)

(***************************************************************************)
(* C15: the column-count contract at load time                             *)
(***************************************************************************)
\* a step that is a call of the load operation op
LoadStep(op) == call'.op = op /\ UNCHANGED <<pc, runs, pair_i>>

TooNarrow(file, max_col_needed) == file.kind = "sheet" /\ file.columns < max_col_needed + 1

\* C15: a load_sales_file or load_stock_file call on a sheet with fewer than
\* max(required position) + 1 columns returns a non-empty error and leaves both stores
\* as they were before the call.
C15_NarrowSheetLeavesStores ==
    [][(\/ LoadStep("load_sales_file") /\ TooNarrow(call'.file, sales_max_col_needed)
        \/ LoadStep("load_stock_file") /\ TooNarrow(call'.file, stock_max_col_needed))
          => ret' # <<>> /\ sales_df' = sales_df /\ stock_df' = stock_df]_vars

\* the load of the narrow snapshot returned its error, the store took the narrow sheet
\* all the same, and the next run failed at run time on the missing column
C15_NarrowSheetFailsAtRunTime ==
    /\ call.op = "load_stock_file" /\ TooNarrow(call.file, stock_max_col_needed)
    /\ ret # <<>>
    /\ stock_df = NarrowStock.rows
    /\ pc = "done" /\ result = ErrKeyError

(***************************************************************************)
(* C16: both sheets can be loaded                                          *)
(***************************************************************************)
WideEnough(file, max_col_needed) == file.kind = "sheet" /\ file.columns >= max_col_needed + 1

\* C16: for a readable workbook with at least 209 (ledger) or 11 (snapshot) columns the
\* load call returns the empty string and fills its store.
C16_WideSheetsLoad ==
    [][/\ LoadStep("load_sales_file") /\ WideEnough(call'.file, sales_max_col_needed)
          => ret' = <<>> /\ sales_df' # None
       /\ LoadStep("load_stock_file") /\ WideEnough(call'.file, stock_max_col_needed)
          => ret' = <<>> /\ stock_df' # None]_vars

\* the ledger of 209 columns was handed to load_sales_file, the call returned an error,
\* and the run that followed was refused for want of a ledger
C16_WideLedgerRefused ==
    /\ call.op = "load_sales_file" /\ call.file = WideLedger
    /\ ret # <<>>
    /\ sales_df = None
    /\ pc = "done" /\ result = ErrNoSales

(***************************************************************************)
(* C17: a run with an empty Mapping Table                                  *)
(***************************************************************************)
EmptyMappingWarning == Warn("no_mapping", <<>>, <<>>, 0)

\* the snapshot rows (index >= 1) of the code and warehouse of ledger row r
SnapshotRowsOf(r) ==
    {s \in DOMAIN stock_df :
        /\ s >= 1
        /\ _normalize_material_code(stock_df[s].A) = _normalize_material_code(sales_df[r].DZ)
        /\ _normalize_material_code(stock_df[s].A) # <<>>
        /\ StrStrip(stock_df[s].G) = StrStrip(sales_df[r].GJ)}

\* C17: a run invoked with an empty Mapping Table and both sheets loaded skips Phase 1
\* with a warning, returns success, and every ledger row whose (code, warehouse) has
\* matching snapshot rows carries the attributes of one of them and a batch number of
\* one of them.
C17_EmptyMappingSyncsLedgerCodes ==
    [][material_mapping = <<>> /\ pc = "save" =>
          /\ result' = Success
          /\ Head(log) = EmptyMappingWarning
          /\ \A r \in DOMAIN sales_df :
                r >= 1 /\ SnapshotRowsOf(r) # {}
                   => /\ \E s \in SnapshotRowsOf(r) :
                            /\ sales_df[r].c132 = TextOf(stock_df[s].E)
                            /\ sales_df[r].c133 = TextOf(stock_df[s].F)
                      /\ \E s \in SnapshotRowsOf(r) : sales_df[r].c161 = stock_df[s].H]_vars

\* C17 corrected: a run invoked with an empty Mapping Table and both sheets loaded
\* skips Phase 1 with a warning and enters Phases 2 and 3, which take their codes from
\* the new codes of the Mapping Table and so visit no group: no cell of the ledger
\* changes, the Change Tracker stays empty, the write-back runs and the call returns
\* success.  (On a snapshot kept from a load that returned the column-count error,
\* Phase 2 faults instead and the call returns the error.)
C17_EmptyMappingSyncsNothing ==
    [][material_mapping = <<>> =>
          /\ Invoked /\ sales_df # None /\ stock_df # None
                => /\ pc' = "phase2"
                   /\ log' = <<EmptyMappingWarning>>
                   /\ sales_df' = sales_df /\ modified_cells' = <<>>
          /\ pc = "phase2"
                => /\ sales_df' = sales_df /\ modified_cells' = <<>>
                   /\ IF NoAliases(stock_df)
                      THEN pc' = "done" /\ result' = ErrKeyError
                      ELSE pc' = "phase3" /\ log' = log
          /\ pc = "phase3"
                => /\ pc' = "save"
                   /\ sales_df' = sales_df /\ modified_cells' = <<>> /\ log' = log
          /\ pc = "save"
                => /\ pc' = "done" /\ result' = Success
                   /\ sales_df' = sales_df /\ sales_df' = start_df
                   /\ modified_cells' = <<>>
                   /\ out_file' \in {out_file, {}}]_vars

\* an empty-mapping run has returned success on a ledger that has rows of (B, W1) and a
\* snapshot that has a batch of (B, W1), and the ledger is as it was
C17_Witness ==
    /\ material_mapping = <<>> /\ pc = "done" /\ result = Success
    /\ Head(log) = EmptyMappingWarning
    /\ stock_df # None /\ ~NoAliases(stock_df)
    /\ \E r \in DOMAIN sales_df : r >= 1 /\ SnapshotRowsOf(r) # {}
    /\ sales_df = start_df /\ modified_cells = <<>>

(***************************************************************************)
(* C18: how process_synchronization signals a fault                        *)
(***************************************************************************)
Faults == {ErrKeyError, ErrOverflow}

\* a step of Phase 2 or Phase 3 in which the call gets its result
PhaseFaults == pc \in {"phase2", "phase3"} /\ result' # result

\* the snapshot has a batch of group g whose quantity is inf
HasInfiniteBatch(g) ==
    \E s \in DOMAIN stock_df :
        /\ s >= 1
        /\ _normalize_material_code(stock_df[s].A) = g.code
        /\ StrStrip(stock_df[s].G) = g.wh
        /\ stock_df[s].K = Inf

\* the snapshot has a batch of group g from which a whole unit can be taken
HasUnits(g) == \E s \in StockMask(stock_df, g) : Units(s) >= 1

\* the index, in the order Phase 3 visits them, of the first group with a batch of
\* quantity inf; one more than the number of groups if there is none
FirstInfinite(groups) ==
    IF \E k \in 1..Len(groups) : HasInfiniteBatch(groups[k])
    THEN CHOOSE k \in 1..Len(groups) :
            /\ HasInfiniteBatch(groups[k])
            /\ \A j \in 1..(k - 1) : ~HasInfiniteBatch(groups[j])
    ELSE Len(groups) + 1

IsPrefix(a, b) == Len(a) <= Len(b) /\ SubSeq(b, 1, Len(a)) = a

\* C18: process_synchronization returns the empty string or one non-empty error string.
\* When a phase faults the call ends at that point with the error: no later phase and
\* no write-back runs, the ledger store keeps what had been applied (the cells written
\* by Phase 1 and Phase 2, and the batches given to the groups Phase 3 visited before
\* the fault), the Change Tracker keeps its entries, and the Mapping Table and both
\* sheets are still there, so that a further invocation is not refused.
C18_FaultAbortsWithoutRollback ==
    [][/\ pc' = "done" => result' \in {Success, ErrNoSales, ErrNoStock} \cup Faults
       /\ pc = "phase2" /\ NoAliases(stock_df) => PhaseFaults /\ result' = ErrKeyError
       /\ pc = "phase3"
             /\ FirstInfinite(Groups(sales_df, material_mapping))
                   <= Len(Groups(sales_df, material_mapping))
             => PhaseFaults /\ result' = ErrOverflow
       /\ PhaseFaults =>
             /\ result' \in Faults /\ result' # Success
             /\ pc' = "done"
             /\ out_file' = out_file
             /\ material_mapping' = material_mapping /\ mapping_config' = mapping_config
             /\ stock_df' = stock_df
             /\ sales_df' # None /\ DOMAIN sales_df' = DOMAIN sales_df
             /\ IsPrefix(modified_cells, modified_cells')
             /\ \A r \in DOMAIN sales_df :
                   /\ sales_df'[r].c129 = sales_df[r].c129
                   /\ sales_df'[r].c132 = sales_df[r].c132
                   /\ sales_df'[r].c133 = sales_df[r].c133
             /\ pc = "phase2" => sales_df' = sales_df
             /\ pc = "phase3" =>
                   LET groups == Groups(sales_df, material_mapping)
                       first == FirstInfinite(groups)
                   IN \A k \in 1..Len(groups) :
                         LET rows == IndexOf(sales_df, GroupMask(sales_df, groups[k]))
                         IN IF k < first
                            THEN HasUnits(groups[k]) =>
                                    /\ \E s \in StockMask(stock_df, groups[k]) :
                                          sales_df'[rows[1]].c161 = TextOf(stock_df[s].H)
                                    /\ InSeq(<<rows[1], ff_col_idx>>, modified_cells')
                            ELSE \A i \in 1..Len(rows) :
                                    /\ sales_df'[rows[i]] = sales_df[rows[i]]
                                    /\ ~InSeq(<<rows[i], ff_col_idx>>, modified_cells')
       /\ Invoked /\ result \in Faults /\ sales_df # None /\ stock_df # None
             => result' \notin {ErrNoSales, ErrNoStock}]_vars

\* Phase 3 faulted on its second group: the first group has its batch, the codes
\* replaced by Phase 1 are in the store, the tracker has its entries, no file was written
C18_Witness ==
    /\ pc = "done" /\ result = ErrOverflow
    /\ out_file = {}
    /\ \E r \in DOMAIN sales_df :
          /\ r >= 1
          /\ sales_df[r].c129 # start_df[r].c129
          /\ sales_df[r].c161 # start_df[r].c161
          /\ InSeq(<<r, original_dz_idx>>, modified_cells)
          /\ InSeq(<<r, ff_col_idx>>, modified_cells)
    /\ \E r \in DOMAIN sales_df :
          /\ r >= 1
          /\ sales_df[r].c129 # start_df[r].c129
          /\ sales_df[r].c161 = start_df[r].c161

\* a run that faulted is followed by a run on the same engine that is not refused
C18_RunAfterFault ==
    /\ runs = 2 /\ pc = "done" /\ result \in Faults
    /\ modified_cells # <<>>

(***************************************************************************)
(* C19: a failure of the final write-back                                  *)
(***************************************************************************)
PersistenceFailures ==
    {Warn("cannot reopen", <<>>, <<>>, 0), Warn("cannot save", <<>>, <<>>, 0)}

\* the write-back step in which the workbook could not be reopened or the new file
\* could not be saved
WriteBackFails == pc = "save" /\ \E w \in PersistenceFailures : log' = Append(log, w)

\* C19: when the final write-back cannot reopen the original workbook or cannot save
\* the output file, process_synchronization returns a non-empty error string instead of
\* success, and the mutations already applied in memory are kept.
C19_WriteBackFailureIsReturned ==
    [][WriteBackFails =>
          /\ result' # Success
          /\ sales_df' = sales_df
          /\ modified_cells' = modified_cells]_vars

\* the call returned success although no file was written: the store holds replaced
\* codes, the tracker has their cells, and the last line of the log is the failure
C19_SuccessWithoutFile ==
    /\ pc = "done" /\ result = Success
    /\ log # <<>> /\ log[Len(log)] \in PersistenceFailures
    /\ out_file = {}
    /\ modified_cells # <<>> /\ sales_df # start_df

(***************************************************************************)
(* C20: runs started from the window are serialized                        *)
(***************************************************************************)
HasEmitted(w) == w.st \in {"emitted", "delivered"}

\* C20: of the runs started through start_processing, at most one at a time is in
\* flight against any one engine instance, and a worker is started only when every
\* worker started before it on that engine has emitted its finished result.
C20_OneRunInFlightPerEngine ==
    [][/\ \A j, k \in DOMAIN workers' :
             j # k /\ workers'[j].engine = workers'[k].engine
                => ~(workers'[j].st = "started" /\ workers'[k].st = "started")
       /\ Len(workers') > Len(workers)
             => \A k \in DOMAIN workers :
                   workers[k].engine = workers'[Len(workers')].engine
                      => HasEmitted(workers[k])]_vars

\* the second run on an engine is in its phases; the first has emitted and its result
\* has been delivered to the window
C20_Witness ==
    /\ Len(workers) = 2
    /\ workers[1].engine = workers[2].engine /\ workers[2].engine = processor
    /\ workers[1].st = "delivered"
    /\ workers[2].st = "started"
    /\ runs = 2 /\ pc \in {"phase1", "phase2", "phase3"}
    /\ ~process_btn

(***************************************************************************)
(* C21: codes that differ by invisible padding                             *)
(***************************************************************************)
\* the text with every zero-width and non-breaking character taken out and the white
\* space at both ends removed: two texts differ only by such characters exactly when
\* they have the same Bare text
Bare(x) == IF isna(x) THEN <<>> ELSE Strip(Replace(Replace(x, ZeroWidth), "nbsp"))

\* a step of the Phase 1 loop that handles a pair
HandlesPair == pc = "phase1" /\ pair_i' = pair_i + 1

\* C21: two raw codes that differ only by leading or trailing white space or by
\* zero-width or non-breaking characters normalize to the same string, so that a ledger
\* row whose code differs from the old code only in that way is rewritten by Phase 1;
\* an absent code normalizes to the empty string; the text written is the new code as
\* the Mapping Table holds it.
C21_PaddedCodesMatch ==
    [][HandlesPair =>
          LET pair == material_mapping[pair_i]
          IN /\ _normalize_material_code(NaN) = <<>>
             /\ \A r \in DOMAIN sales_df :
                   r >= 1 /\ Bare(start_df[r].c129) = Bare(pair.old)
                      => /\ _normalize_material_code(start_df[r].c129)
                               = _normalize_material_code(pair.old)
                         /\ Bare(pair.old) # Bare(pair.new) => sales_df'[r].c129 = pair.new]_vars

\* Phase 1 has rewritten the plain rows and left the row whose code is the old code
\* behind a zero-width character and a blank
C21_PaddedRowLeftBehind ==
    /\ pc = "done" /\ result = Success
    /\ start_df[1].c129 = <<ZeroWidth, " ">> \o CodeA
    /\ sales_df[1].c129 = start_df[1].c129
    /\ sales_df[2].c129 = CodeB

(***************************************************************************)
(* C22: warehouse names that differ by invisible padding                   *)
(***************************************************************************)
\* the snapshot rows whose code is that of ledger row r and whose warehouse name differs
\* from that of row r at most by invisible padding
SameWarehouseRows(r) ==
    {s \in DOMAIN stock_df :
        /\ s >= 1
        /\ _normalize_material_code(stock_df[s].A) = _normalize_material_code(sales_df[r].DZ)
        /\ Bare(stock_df[s].G) = Bare(sales_df[r].GJ)}

CarriesNewCode(r) ==
    \E i \in 1..Len(material_mapping) :
        _normalize_material_code(sales_df[r].DZ)
            = _normalize_material_code(material_mapping[i].new)

\* C22: in Phases 2 and 3 a ledger row of a new code and a snapshot row of that code
\* whose warehouse names differ only by leading or trailing white space or by zero-width
\* or non-breaking characters are of the same warehouse: after a successful run the
\* ledger row carries the attributes and the batch of such a snapshot row.
C22_PaddedWarehousesMatch ==
    pc = "done" /\ result = Success
        => \A r \in DOMAIN sales_df :
              r >= 1 /\ CarriesNewCode(r) /\ ~isna(sales_df[r].GJ) /\ SameWarehouseRows(r) # {}
                 => /\ \E s \in SameWarehouseRows(r) :
                          /\ sales_df[r].c132 = TextOf(stock_df[s].E)
                          /\ sales_df[r].c133 = TextOf(stock_df[s].F)
                    /\ \E s \in SameWarehouseRows(r) : sales_df[r].c161 = TextOf(stock_df[s].H)

\* the run has ended with success; the ledger row whose warehouse name is W1 behind a
\* zero-width character kept its attributes and its batch although the snapshot has
\* batches of its code in W1, and the rows of plain W1 were synced
C22_PaddedWarehouseLeftBehind ==
    /\ pc = "done" /\ result = Success
    /\ sales_df[1].c129 = CodeB /\ sales_df[1].c191 = <<ZeroWidth>> \o W1
    /\ \A s \in StockDataRows : stock_df[s].G = W1
    /\ sales_df[1].c132 = OldEC /\ sales_df[1].c161 = OldLot
    /\ sales_df[2].c132 # OldEC /\ sales_df[2].c161 # OldLot

(***************************************************************************)
(* C23: the write-back is the last step of a run                           *)
(***************************************************************************)
\* C23: within one process_synchronization call the output file is written at most once
\* and only by the write-back step, which follows the completed Phase 3, which follows
\* the completed Phase 2, which follows the last pair of Phase 1 (or the invocation,
\* when the Mapping Table is empty and Phase 1 has no pair to handle); no step of a
\* phase writes the file, and a call that returns an error writes none.
C23_WriteBackOnlyAfterPhases ==
    [][/\ out_file' # out_file => pc = "save" /\ pc' = "done" /\ result' = Success
       /\ pc # "save" => out_file' = out_file
       /\ pc' = "save" /\ pc # "save" => pc = "phase3" /\ result' = "running"
       /\ pc' = "phase3" /\ pc # "phase3" => pc = "phase2" /\ result' = "running"
       /\ pc' = "phase2" /\ pc # "phase2"
             => \/ pc = "phase1" /\ pair_i = Len(items.dict)
                \/ Invoked /\ material_mapping = <<>>
       /\ pc' = "done" /\ result' # Success => out_file' = out_file]_vars

\* the second run on the engine has gone through its three phases, changed ledger cells
\* and written the file with them
C23_Witness ==
    /\ runs = 2 /\ pc = "done" /\ result = Success
    /\ material_mapping # <<>>
    /\ modified_cells # <<>>
    /\ out_file = Highlighted(sales_df, modified_cells) /\ out_file # {}

(***************************************************************************)
(* C24: the Change Tracker is emptied by every run that starts its phases  *)
(***************************************************************************)
InPhase == pc \in {"phase1", "phase2", "phase3"}

\* C24: process_synchronization may be invoked again after a completed, refused or
\* faulted run; an invocation that finds both sheets loaded empties the Change Tracker
\* before its phases, and until the next invocation the tracker changes only by appends
\* made by the phases of that run: when the run ends the tracker holds the cells the
\* run's phases appended and none of an earlier run.
C24_TrackerHoldsThisRunOnly ==
    [][/\ Invoked /\ sales_df # None /\ stock_df # None => modified_cells' = <<>>
       /\ Invoked => pc \in {"idle", "done"}
       /\ modified_cells' # modified_cells /\ ~Invoked
             => InPhase /\ IsPrefix(modified_cells, modified_cells')]_vars

\* the first run rewrote the code of row 1 and tracked the cell; the second run on the
\* same engine found no old code, synced attributes and batches again, and its tracker
\* holds those cells and no longer the code cell
C24_Witness ==
    /\ runs = 2 /\ pc = "done" /\ result = Success
    /\ InSeq(<<1, original_dz_idx>>, prev_cells)
    /\ modified_cells # <<>>
    /\ \A k \in 1..Len(modified_cells) : modified_cells[k][2] # original_dz_idx

(***************************************************************************)
(* C25: the rows Phases 2 and 3 may touch                                  *)
(***************************************************************************)
\* the auxiliary-attribute and batch cells of a ledger row, by position and by alias
AuxBatchCells(row) ==
    <<row.c132, row.c133, row.c161, row.c162, row.EC, row.ED, row.FF, row.FG>>

AuxBatchColumns == {ec_col_idx, ed_col_idx, ff_col_idx, fg_col_idx}

\* the (new code, warehouse) group of ledger data row r
GroupOfRow(r) ==
    [code |-> _normalize_material_code(sales_df[r].DZ), wh |-> StrStrip(sales_df[r].GJ)]

\* the warning Phase 2, or Phase 3, logs for a group without snapshot row
NoStockWarning(g) ==
    Warn(IF pc = "phase2" THEN "aux_no_stock" ELSE "batch_no_stock", g.code, g.wh, 0)

\* C25: a step of Phase 2 or Phase 3 keeps the attribute and batch cells of the header
\* row and of every ledger row whose normalized code is not a new code of the Mapping
\* Table; for a group of new-code rows without snapshot row of its code and warehouse
\* the phase logs a warning, leaves the attribute and batch cells of the group's rows
\* as they were, tracks none of them, and the run goes on.
C25_PhasesTouchNewCodeRowsOnly ==
    [][(pc \in {"phase2", "phase3"}) =>
          /\ \A r \in DOMAIN sales_df :
                r < 1 \/ ~CarriesNewCode(r)
                   => AuxBatchCells(sales_df'[r]) = AuxBatchCells(sales_df[r])
          /\ \A r \in DOMAIN sales_df :
                (/\ r >= 1 /\ CarriesNewCode(r) /\ ~isna(sales_df[r].GJ)
                 /\ StockMask(stock_df, GroupOfRow(r)) = {})
                => /\ \E j \in (Len(log) + 1)..Len(log') : log'[j] = NoStockWarning(GroupOfRow(r))
                   /\ AuxBatchCells(sales_df'[r]) = AuxBatchCells(sales_df[r])
                   /\ \A c \in AuxBatchColumns :
                         InSeq(<<r, c>>, modified_cells') => InSeq(<<r, c>>, modified_cells)
                   /\ pc' \in {"phase3", "save"} /\ result' = result]_vars

\* the run has ended: row 1 carries a new code that has no snapshot row in its warehouse
\* and kept its attributes and batch, with both warnings in the log; row 2 carries a new
\* code that the snapshot has and was synced
C25_Witness ==
    /\ pc = "done" /\ result = Success
    /\ CarriesNewCode(1) /\ StockMask(stock_df, GroupOfRow(1)) = {}
    /\ AuxBatchCells(sales_df[1]) = AuxBatchCells(start_df[1])
    /\ \E j \in 1..Len(log) : log[j] = Warn("aux_no_stock", GroupOfRow(1).code, GroupOfRow(1).wh, 0)
    /\ \E j \in 1..Len(log) : log[j] = Warn("batch_no_stock", GroupOfRow(1).code, GroupOfRow(1).wh, 0)
    /\ CarriesNewCode(2) /\ StockMask(stock_df, GroupOfRow(2)) # {}
    /\ sales_df[2].c132 # start_df[2].c132 /\ sales_df[2].c161 # start_df[2].c161

(***************************************************************************)
(* C26: what a run leaves alone                                            *)
(***************************************************************************)
\* a step of process_synchronization: the invocation, a phase step or the write-back
RunStep == Invoked \/ InPhase \/ pc = "save"

\* no row is added, removed or moved, the warehouse cells keep their values, and the
\* snapshot store is not changed
KeepsRowsAndStock ==
    /\ DOMAIN sales_df' = DOMAIN sales_df
    /\ \A r \in DOMAIN sales_df :
          sales_df'[r].c191 = sales_df[r].c191 /\ sales_df'[r].GJ = sales_df[r].GJ
    /\ stock_df' = stock_df

\* C26 as stated: process_synchronization never inserts, deletes or reorders ledger
\* rows, never writes a cell of the row at index 0, never writes a warehouse cell, and
\* never changes the snapshot store.
C26_RunWritesNoHeaderCell ==
    [][RunStep => KeepsRowsAndStock /\ sales_df'[0] = sales_df[0]]_vars

\* C26 amended: process_synchronization never inserts, deletes or reorders ledger rows,
\* never writes a warehouse cell and never changes the snapshot store; of the row at
\* index 0 it keeps every positional cell and every alias cell, except that the DZ
\* alias is converted to text when Phase 1 runs (an empty cell becomes 'nan').
C26_RunReplacesValuesOnly ==
    [][RunStep =>
          /\ KeepsRowsAndStock
          /\ sales_df'[0] = [sales_df[0] EXCEPT
                                !.DZ = IF Invoked /\ pc' = "phase1" THEN Str(@) ELSE @]]_vars

\* the run has ended with success on a ledger whose header row has an empty code cell:
\* the positional cell is still empty, the alias holds the text 'nan', a data row was
\* given its new code, and the header row's other cells are as they were
C26_Witness ==
    /\ pc = "done" /\ result = Success
    /\ isna(start_df[0].DZ) /\ isna(sales_df[0].c129)
    /\ sales_df[0] = [start_df[0] EXCEPT !.DZ = <<"n", "a", "n">>]
    /\ sales_df[1].c129 # start_df[1].c129
    /\ sales_df[1].c132 # start_df[1].c132

(***************************************************************************)
(* C27: the window's handlers while a worker is in a run                   *)
(***************************************************************************)
\* a worker started by start_processing is inside process_synchronization on the engine
\* the window holds
RunInFlight ==
    \E k \in DOMAIN workers :
        InFlight(k) /\ Attached(k) /\ runs > workers[k].ticket /\ pc # "done"

\* a step of a handler other than the start button's, on the engine the window keeps
HandlerStep == events' # events /\ processor' = processor

\* C27: while a run started by start_processing is in flight no handler of the window
\* (add mapping, batch add, clear mappings, browse of a file) changes the engine's
\* Mapping Table or its loaded sheets.
C27_EngineFixedDuringRun ==
    [][RunInFlight /\ HandlerStep
          => /\ material_mapping' = material_mapping
             /\ sales_df' = sales_df
             /\ stock_df' = stock_df]_vars

\* the worker's call has ended with the error of a dict that changed its size during
\* iteration: add_material_mapping put a pair into the table while Phase 1 was looping
C27_TableChangedUnderWorker ==
    /\ pc = "done" /\ result = ErrRuntime
    /\ call.op = "set_material_mapping" /\ ret = <<>>
    /\ \E k \in DOMAIN workers : Attached(k) /\ InFlight(k)
    /\ Len(material_mapping) > items.used

(***************************************************************************)
(* C28: the Change Tracker against the cells that changed                  *)
(***************************************************************************)
TrackedColumns == {original_dz_idx, ec_col_idx, ed_col_idx, ff_col_idx, fg_col_idx}

\* a phase of the run in progress has ended, or the run has
PhaseEnded == runs >= 1 /\ pc \in {"phase2", "phase3", "save", "done"}

\* the snapshot rows of the code ledger row r carries now, in the warehouse of row r
StockRowsOf(r) == StockMask(stock_df, GroupOfRow(r))

\* the value in the tracked cell <<r, col>> is one the phase of that column writes: a
\* new code of the Mapping Table, an attribute or a batch of a snapshot row of the group
WrittenValue(r, col) ==
    CASE col = original_dz_idx ->
             \E i \in 1..Len(material_mapping) : sales_df[r].c129 = material_mapping[i].new
      [] col = ec_col_idx -> \E s \in StockRowsOf(r) : sales_df[r].c132 = TextOf(stock_df[s].E)
      [] col = ed_col_idx -> \E s \in StockRowsOf(r) : sales_df[r].c133 = TextOf(stock_df[s].F)
      [] col = ff_col_idx -> \E s \in StockRowsOf(r) : sales_df[r].c161 = TextOf(stock_df[s].H)
      [] col = fg_col_idx -> \E s \in StockRowsOf(r) : sales_df[r].c162 = TextOf(stock_df[s].H)

\* C28: at the end of every phase of a run every ledger cell of the positional columns
\* whose value differs from its value at the start of the run is in the Change Tracker,
\* and every tracked pair names a data row (index >= 1) and one of the positions 129,
\* 132, 133, 161, 162 whose cell holds a value written by the phase of that column.
C28_TrackerSoundAndComplete ==
    PhaseEnded =>
        /\ \A r \in DOMAIN sales_df, c \in TrackedColumns :
              Cell(sales_df, r, c) # Cell(start_df, r, c) => InSeq(<<r, c>>, modified_cells)
        /\ \A k \in 1..Len(modified_cells) :
              /\ modified_cells[k][1] \in DOMAIN sales_df /\ modified_cells[k][1] >= 1
              /\ modified_cells[k][2] \in TrackedColumns
              /\ WrittenValue(modified_cells[k][1], modified_cells[k][2])

\* the run has ended: row 1 was rewritten twice by a chain of two pairs and is tracked
\* twice, its attribute and batch cells were synced and are tracked, and the tracker
\* holds no cell of the header row
C28_Witness ==
    /\ pc = "done" /\ result = Success
    /\ Len(material_mapping) = 2
    /\ sales_df[1].c129 = material_mapping[2].new /\ start_df[1].c129 # sales_df[1].c129
    /\ Cardinality({k \in 1..Len(modified_cells) : modified_cells[k] = <<1, original_dz_idx>>}) = 2
    /\ \A c \in TrackedColumns : InSeq(<<1, c>>, modified_cells)
    /\ sales_df[1].c161 # start_df[1].c161

(***************************************************************************)
(* C29: Phase 1 over chained pairs                                         *)
(***************************************************************************)
\* Phase 1 of the run has handled every pair of the table
Phase1Done == runs >= 1 /\ material_mapping # <<>> /\ pc \in {"phase2", "phase3", "save", "done"}

TimesRewritten(r) ==
    Cardinality({k \in 1..Len(modified_cells) : modified_cells[k] = <<r, original_dz_idx>>})

\* C29: after Phase 1 has handled all pairs of the Mapping Table no ledger data row
\* carries the old code of a pair whose two codes differ, and no material-code cell was
\* rewritten more than once, whatever the order in which chained pairs were inserted.
C29_NoOldCodeLeftOneRewrite ==
    Phase1Done =>
        \A r \in DOMAIN sales_df :
            r >= 1 =>
                /\ \A i \in 1..Len(material_mapping) :
                      _normalize_material_code(material_mapping[i].old)
                            # _normalize_material_code(material_mapping[i].new)
                         => _normalize_material_code(sales_df[r].DZ)
                               # _normalize_material_code(material_mapping[i].old)
                /\ TimesRewritten(r) <= 1

\* the table holds B -> C and then A -> B: row 1 held A, was rewritten by the second
\* pair after the first had been handled, and ends the run with B, the old code of the
\* first pair
C29_ChainedPairLeavesOldCode ==
    /\ pc = "done" /\ result = Success
    /\ material_mapping = <<Pair(CodeB, CodeC), Pair(CodeA, CodeB)>>
    /\ start_df[1].c129 = CodeA
    /\ sales_df[1].c129 = CodeB
    /\ TimesRewritten(1) = 1

(***************************************************************************)
(* C30: the Code Normalizer as a canonical form                            *)
(***************************************************************************)
\* no white space at either end, no zero-width and no non-breaking-space character
Canonical(s) ==
    /\ s = <<>> \/ (Head(s) \notin Whitespace /\ s[Len(s)] \notin Whitespace)
    /\ \A i \in 1..Len(s) : s[i] \notin {ZeroWidth, "nbsp"}

\* C30: for every raw value x, normalize(normalize(x)) = normalize(x), and normalize(x)
\* has no leading or trailing white space and no zero-width or non-breaking-space
\* character; stated for every code cell of the ledger a run reads.
C30_NormalizerIdempotentCanonical ==
    sales_df # None =>
        \A r \in DOMAIN sales_df :
            LET x == sales_df[r].c129
            IN /\ _normalize_material_code(_normalize_material_code(x))
                     = _normalize_material_code(x)
               /\ Canonical(_normalize_material_code(x))

\* Phase 1 has read a code cell that ends in a blank and a zero-width character: its
\* normal form ends in the blank, and the normal form of that is the bare code
C30_BlankUncoveredByRemoval ==
    /\ runs >= 1 /\ pc \in {"phase2", "phase3", "save", "done"}
    /\ sales_df[1].c129 = CodeA \o <<" ", ZeroWidth>>
    /\ _normalize_material_code(sales_df[1].c129) = CodeA \o <<" ">>
    /\ _normalize_material_code(_normalize_material_code(sales_df[1].c129)) = CodeA

====
